---- MODULE Spec2Model ----
(***************************************************************************)
(* cinemaquery: the HAL-JSON pagination walker of CineamoClient            *)
(* (src/src/cineamoquery/client.py): get, list_paginated and the           *)
(* generator stream_all, with the HTTP server as the environment.          *)
(***************************************************************************)
EXTENDS Integers, Sequences, FiniteSets, TLC

VARIABLES
    response,   \* the HTTP outcome a direct list_paginated call receives
    result,     \* what that call returned or raised (NoResult before it ran)
    server,     \* the server's pages: page index -> HTTP outcome, fixed once served
    call,       \* per walk: the arguments stream_all was called with
    gen,        \* per walk: the generator frame of stream_all
    consumer,   \* per walk: what the consumer of the generator is doing
    asked,      \* per walk: how many times the consumer has called next()
    out,        \* per walk: the items the consumer has received, in order
    raised,     \* per walk: the exception that reached the consumer
    requests,   \* every GET issued on the client, in order
    inflight,   \* GETs issued and not yet answered
    calls,      \* the direct calls of get, get_json and list_paginated, in order
    replies,    \* the server's answers to direct calls: request -> HTTP outcome
    file,       \* ~/.config/cineamoquery/config.toml: missing, or its TOML text
    run,        \* the last run of the command-line tool: its arguments and outcome
    lastSet,    \* per key: the value of the last `config set` that completed
    app,        \* the caller of stream_all: a loader or a list command, and how it ended
    ui          \* the interactive session: where run_interactive stands

vars ==
    <<response, result, server, call, gen, consumer, asked, out, raised, requests,
      inflight, calls, replies, file, run, lastSet, app, ui>>

callVars == <<calls, replies>>
cliVars == <<file, run, lastSet>>
appVars == <<app, ui>>
pageVars == <<response, result, callVars, cliVars, appVars>>
walkVars == <<server, call, gen, consumer, asked, out, raised, requests, inflight>>

(***************************************************************************)
(* Bounds of the model.                                                    *)
(***************************************************************************)
MaxEmbedded == 2    \* entries of an `_embedded` object
MaxPages == 3       \* pages the server holds; a request beyond them gets 404
MaxPageLen == 2     \* items of one page of a walk
MaxCalls == 2       \* direct calls made on one client

(***************************************************************************)
(* Python values.  An optional value (x | None) is None or Some(x).        *)
(***************************************************************************)
None == <<>>
Some(v) == <<v>>

\* dict.get(key): the value, or None when the key is missing.
DictGet(d, key) == IF key \in DOMAIN d THEN Some(d[key]) ELSE None

\* dict.get(key, default)
DictGetDefault(d, key, default) == IF key \in DOMAIN d THEN d[key] ELSE default

(***************************************************************************)
(* JSON values as resp.json() decodes them.  A value is tagged with its    *)
(* JSON type; an array carries its elements (`a`), an object its members   *)
(* (`o`).  A resource such as {"id": 1} is written as its id.              *)
(***************************************************************************)
JNull == [t |-> "null"]
JNumber == [t |-> "number"]
JArray(elems) == [t |-> "array", a |-> elems]
JObject(members) == [t |-> "object", o |-> members]

\* isinstance(v, list)
IsList(v) == v.t = "array"

\* A URL reference as an href writes it: the path and the page its query names.
\* EmptyHref is the empty string "".
Href(path, page) == [path |-> path, page |-> page]
EmptyHref == Href("", 0)

\* Python truth of an optional string (p.next_url): None and "" are false.
TruthyStr(s) == s # None /\ s[1] # EmptyHref

\* Python truth of links.get("next"): None (key missing), null and {} are false.
TruthyLink(v) == v # None /\ v[1].t = "object" /\ DOMAIN v[1].o # {}

(***************************************************************************)
(* HTTP outcomes of one GET: the transport failed before any response, or  *)
(* a response with a status and a body.  A body is a JSON object (`data`   *)
(* holds its members), some other JSON value, or not JSON at all.          *)
(***************************************************************************)
TransportError == [kind |-> "transport"]
HttpResponse(status, body) == [kind |-> "response", status |-> status, body |-> body]
ObjectBody(data) == [json |-> "object", data |-> data]
ArrayBody == [json |-> "array"]
ScalarBody == [json |-> "scalar"]
InvalidBody == [json |-> "invalid"]

\* What a call returns or raises.
Raise(exc, status) == [tag |-> "raise", exc |-> exc, status |-> status]
Return(value) == [tag |-> "return", value |-> value]
NoResult == [tag |-> "none"]

\* @dataclass Page
Page(items, total_items, page, page_count, next_url) ==
    [items |-> items, total_items |-> total_items, page |-> page,
     page_count |-> page_count, next_url |-> next_url]

\* A raise_for_status that lets every status below 400 through.
IsNotError(status) == status < 400

\* httpx Response.raise_for_status: raises unless the status is 2xx.
IsSuccess(status) == status >= 200 /\ status <= 299

\* CineamoClient.get: the response, or the exception of the transport or of
\* raise_for_status.
get(resp) ==
    IF resp.kind = "transport" THEN Raise("ConnectError", 0)
    ELSE IF ~IsSuccess(resp.status) THEN Raise("HTTPStatusError", resp.status)
    ELSE Return(resp)

\* CineamoClient.get_json: self.get(...).json(), the parsed body whatever its
\* JSON type.
get_json(resp) ==
    LET r == get(resp) IN
    IF r.tag = "raise" THEN r
    ELSE IF resp.body.json = "invalid" THEN Raise("JSONDecodeError", 0)
    ELSE Return(resp.body)

\* embedded.values(): the member values of the object in encoded order.
Values(embedded) == [i \in 1..Len(embedded) |-> embedded[i].v]

\* A list_paginated whose loop keeps overwriting items: the last list wins.
RECURSIVE LastList(_)
LastList(vals) ==
    IF vals = <<>> THEN <<>>
    ELSE IF IsList(vals[Len(vals)]) THEN vals[Len(vals)].a
    ELSE LastList(SubSeq(vals, 1, Len(vals) - 1))

\* The loop of list_paginated: items is the first value that is a list,
\* [] when there is none.
RECURSIVE FirstList(_)
FirstList(vals) ==
    IF vals = <<>> THEN <<>>
    ELSE IF IsList(Head(vals)) THEN Head(vals).a
    ELSE FirstList(Tail(vals))

\* A next_url that falls back to the `self` relation when there is no next.
NextHrefOrSelf(links) ==
    LET nxt == DictGet(links, "next")
        slf == DictGet(links, "self")
        obj == IF TruthyLink(nxt) THEN nxt[1].o
               ELSE IF TruthyLink(slf) THEN slf[1].o ELSE <<>>
    IN  DictGet(obj, "href")

\* (links.get("next") or {}).get("href")
NextHref(links) ==
    LET nxt == DictGet(links, "next")
        obj == IF TruthyLink(nxt) THEN nxt[1].o ELSE <<>>
    IN  DictGet(obj, "href")

\* A Page built with page and page_count taken from each other's key.
PageOfSwapped(data) ==
    Page(FirstList(Values(DictGetDefault(data, "_embedded", <<>>))),
         DictGet(data, "_total_items"),
         DictGet(data, "_page_count"),
         DictGet(data, "_page"),
         NextHref(DictGetDefault(data, "_links", <<>>)))

\* The Page list_paginated builds from the decoded object `data`.
PageOf(data) ==
    LET embedded == DictGetDefault(data, "_embedded", <<>>)
        items == FirstList(Values(embedded))
        links == DictGetDefault(data, "_links", <<>>)
    IN  Page(items,
             DictGet(data, "_total_items"),
             DictGet(data, "_page"),
             DictGet(data, "_page_count"),
             NextHref(links))

\* A list_paginated that recovers from a body that is no object with an empty
\* Page.
list_paginated_lenient(resp) ==
    LET r == get(resp) IN
    IF r.tag = "raise" THEN r
    ELSE IF resp.body.json = "invalid" THEN Raise("JSONDecodeError", 0)
    ELSE IF resp.body.json # "object" THEN Return(PageOf(<<>>))
    ELSE Return(PageOf(resp.body.data))

\* A list_paginated that indexes data["_links"]["next"]["href"] instead of
\* using get.
list_paginated_strict_links(resp) ==
    LET r == get(resp) IN
    IF r.tag = "raise" THEN r
    ELSE IF resp.body.json = "invalid" THEN Raise("JSONDecodeError", 0)
    ELSE IF resp.body.json # "object" THEN Raise("AttributeError", 0)
    ELSE IF NextHref(DictGetDefault(resp.body.data, "_links", <<>>)) = None
    THEN Raise("KeyError", 0)
    ELSE Return(PageOf(resp.body.data))

\* A list_paginated that indexes data["_embedded"] instead of using get.
list_paginated_strict(resp) ==
    LET r == get(resp) IN
    IF r.tag = "raise" THEN r
    ELSE IF resp.body.json = "invalid" THEN Raise("JSONDecodeError", 0)
    ELSE IF resp.body.json # "object" THEN Raise("AttributeError", 0)
    ELSE IF "_embedded" \notin DOMAIN resp.body.data THEN Raise("KeyError", 0)
    ELSE Return(PageOf(resp.body.data))

\* CineamoClient.list_paginated on the outcome of its GET: the exception of
\* get, of resp.json() on a body that is not JSON, of data.get on a body that
\* is no object, or the Page.
list_paginated(resp) ==
    LET r == get(resp) IN
    IF r.tag = "raise" THEN r
    ELSE IF resp.body.json = "invalid" THEN Raise("JSONDecodeError", 0)
    ELSE IF resp.body.json # "object" THEN Raise("AttributeError", 0)
    ELSE Return(PageOf(resp.body.data))

(***************************************************************************)
(* The response bodies a direct list_paginated call is tried on.           *)
(***************************************************************************)
EmbKeys == {"cinemas", "movies", "total"}
EmbVals == {JArray(<<>>), JArray(<<1, 2>>), JArray(<<3>>), JNumber}

RECURSIVE SeqsUpTo(_, _)
SeqsUpTo(S, n) ==
    IF n = 0 THEN {<<>>}
    ELSE LET shorter == SeqsUpTo(S, n - 1)
         IN  shorter \cup {Append(s, x) : s \in {t \in shorter : Len(t) = n - 1}, x \in S}

\* `_embedded` objects: up to MaxEmbedded members with distinct names.
EmbeddedObjects ==
    {e \in SeqsUpTo([k : EmbKeys, v : EmbVals], MaxEmbedded) :
        \A i, j \in 1..Len(e) : i # j => e[i].k # e[j].k}

LinkValues ==
    {JNull, JObject(<<>>), JObject([href |-> EmptyHref]),
     JObject([href |-> Href("/cinemas", 2)])}

\* `_links` objects: any of the relations self, prev, last, with or without next.
LinksObjects ==
    LET others == {<<>>, [self |-> JObject([href |-> Href("/cinemas", 1)])],
                   [prev |-> JObject([href |-> Href("/cinemas", 1)]),
                    last |-> JObject([href |-> Href("/cinemas", 3)])]}
    IN  others \cup {("next" :> n) @@ l : n \in LinkValues, l \in others}

MetaValues == {0, 7}

Optional(S) == {None} \cup {Some(x) : x \in S}

Member(key, opt) == IF opt = None THEN <<>> ELSE key :> opt[1]

ObjectBodies ==
    {ObjectBody(Member("_embedded", e) @@ Member("_links", l) @@ Member("_page", p)
                @@ Member("_page_count", c) @@ Member("_total_items", n)) :
        e \in Optional(EmbeddedObjects), l \in Optional(LinksObjects),
        p \in Optional(MetaValues), c \in Optional(MetaValues), n \in Optional(MetaValues)}

Responses ==
    {HttpResponse(200, b) : b \in ObjectBodies \cup {ArrayBody, ScalarBody, InvalidBody}}
    \cup {HttpResponse(s, InvalidBody) : s \in {404, 500}} \cup {TransportError}

(***************************************************************************)
(* The walks of stream_all.  A walk is idle until stream_all is called.    *)
(***************************************************************************)
Walks == {1, 2}

NoCall == [path |-> "", per_page |-> None, params |-> <<>>]
NoPage == Page(<<>>, None, None, None, None)
IdleGen == [pc |-> "none", page |-> 0, p |-> NoPage, i |-> 0]

WalksIdle ==
    /\ server = <<>>
    /\ call = [w \in Walks |-> NoCall]
    /\ gen = [w \in Walks |-> IdleGen]
    /\ consumer = [w \in Walks |-> "none"]
    /\ asked = [w \in Walks |-> 0]
    /\ out = [w \in Walks |-> <<>>]
    /\ raised = [w \in Walks |-> NoResult]
    /\ requests = <<>>
    /\ inflight = 0

(***************************************************************************)
(* The server of a walk.  It holds at most MaxPages pages and decides the  *)
(* shape of a page when the page is first requested; from then on the page *)
(* is unchanged.  A shape is a failure, or a page with n items, a kind of  *)
(* next link and a kind of metadata.                                       *)
(***************************************************************************)
Shape(kind, n, nxt, meta) == [kind |-> kind, n |-> n, nxt |-> nxt, meta |-> meta]

\* next link: none, an empty href, the next page of the path, another page.
\* metadata: absent, saying this page is the last, saying more pages remain.
LinkMeta ==
    {<<"none", "absent">>, <<"none", "more">>, <<"empty", "absent">>,
     <<"follow", "more">>, <<"follow", "last">>, <<"elsewhere", "absent">>}

FailureShapes ==
    {Shape(k, 0, "none", "absent") : k \in {"transport", "status500", "not_json"}}

PageShapes ==
    {Shape("page", n, lm[1], lm[2]) : n \in 0..MaxPageLen, lm \in LinkMeta}

NotFoundShape == Shape("status404", 0, "none", "absent")

\* The items of page k when it holds n of them: ids no other page uses.
ItemsOf(k, n) == [j \in 1..n |-> (k - 1) * (MaxPageLen + 1) + j]

\* The body of page k of `path` with the given shape.
WalkData(path, k, shape) ==
    LET links ==
            CASE shape.nxt = "none" -> [self |-> JObject([href |-> Href(path, k)])]
              [] shape.nxt = "empty" -> [next |-> JObject([href |-> EmptyHref])]
              [] shape.nxt = "follow" ->
                    [self |-> JObject([href |-> Href(path, k)]),
                     next |-> JObject([href |-> Href(path, k + 1)])]
              [] shape.nxt = "elsewhere" -> [next |-> JObject([href |-> Href(path, k + 2)])]
        meta ==
            CASE shape.meta = "absent" -> <<>>
              [] shape.meta = "last" ->
                    [_page |-> k, _page_count |-> k, _total_items |-> shape.n]
              [] shape.meta = "more" ->
                    [_page |-> k, _page_count |-> k + 1,
                     _total_items |-> (k + 1) * (MaxPageLen + 1)]
    IN  ("_embedded" :> <<[k |-> "total", v |-> JNumber],
                          [k |-> "cinemas", v |-> JArray(ItemsOf(k, shape.n))]>>)
        @@ ("_links" :> links) @@ meta

\* The outcome of a GET for page k of `path` on a server page of this shape.
Respond(path, k, shape) ==
    CASE shape.kind = "transport" -> TransportError
      [] shape.kind = "status500" -> HttpResponse(500, InvalidBody)
      [] shape.kind = "status404" -> HttpResponse(404, InvalidBody)
      [] shape.kind = "not_json" -> HttpResponse(200, InvalidBody)
      [] shape.kind = "page" -> HttpResponse(200, ObjectBody(WalkData(path, k, shape)))

\* The shapes the server may give page k: the one it already served, 404
\* beyond its last page, any shape otherwise.
ServerShapes(k) ==
    IF k \in DOMAIN server THEN {server[k]}
    ELSE IF k > MaxPages THEN {NotFoundShape}
    ELSE PageShapes \cup FailureShapes

(***************************************************************************)
(* stream_all(path, per_page=50, **params) and its consumer.               *)
(***************************************************************************)
DefaultPerPage == 50

\* The calls tried: stream_all("/cinemas") and
\* stream_all("/movies", per_page=2, city="Berlin").
Calls ==
    {[path |-> "/cinemas", per_page |-> None, params |-> <<>>],
     [path |-> "/movies", per_page |-> Some(2), params |-> [city |-> "Berlin"]]}

\* The per_page the generator runs with: the argument, 50 when not given.
PerPage(c) == IF c.per_page = None THEN DefaultPerPage ELSE c.per_page[1]

\* A call that leaves **params out.
KwargsWithoutParams(c, page) == ("per_page" :> PerPage(c)) @@ ("page" :> page)

\* The keyword arguments of self.list_paginated(path, per_page=per_page,
\* page=page, **params), which get passes on as the query parameters.
Kwargs(c, page) == ("per_page" :> PerPage(c)) @@ ("page" :> page) @@ c.params

Request(w, c, page) == [w |-> w, path |-> c.path, params |-> Kwargs(c, page)]

\* A generator object exists for each of the walks ws and none of its body
\* has run.
Created(ws) ==
    /\ gen = [w \in Walks |-> IF w \in ws THEN [IdleGen EXCEPT !.pc = "created"] ELSE IdleGen]
    /\ consumer = [w \in Walks |-> IF w \in ws THEN "consuming" ELSE "none"]
    /\ asked = [w \in Walks |-> 0]
    /\ out = [w \in Walks |-> <<>>]
    /\ raised = [w \in Walks |-> NoResult]
    /\ requests = <<>>
    /\ inflight = 0

\* stream_all was called for the walks ws and no other.
Generators(ws) ==
    /\ call \in {f \in [Walks -> Calls \cup {NoCall}] : \A w \in Walks : f[w] = NoCall <=> w \notin ws}
    /\ Created(ws)

\* The state in which stream_all was called for the walks ws and no other:
\* a generator object exists for each and none of its body has run.
Started(ws) ==
    /\ server = <<>>
    /\ Generators(ws)

\* The consumer calls next() on the generator: its body runs, from the top
\* (page = 1) the first time and from the yield it is suspended at later.
\* One thread runs the program: no other next() is under way.
ConsumerNext(w) ==
    /\ consumer[w] = "consuming"
    /\ \A v \in Walks : consumer[v] # "in_next"
    /\ gen[w].pc \in {"created", "suspended"}
    /\ consumer' = [consumer EXCEPT ![w] = "in_next"]
    /\ asked' = [asked EXCEPT ![w] = @ + 1]
    /\ gen' = [gen EXCEPT ![w] =
                 IF gen[w].pc = "created" THEN [@ EXCEPT !.pc = "call", !.page = 1]
                 ELSE [@ EXCEPT !.pc = "items"]]
    /\ UNCHANGED <<pageVars, server, call, out, raised, requests, inflight>>

\* The consumer stops consuming (it leaves its loop): next() is never called
\* again and the suspended generator runs no more code.
ConsumerStop(w) ==
    /\ consumer[w] = "consuming"
    /\ consumer' = [consumer EXCEPT ![w] = "stopped"]
    /\ UNCHANGED <<pageVars, server, call, gen, asked, out, raised, requests, inflight>>

\* p = self.list_paginated(...): the GET is issued.
SendGet(w) ==
    /\ gen[w].pc = "call"
    /\ requests' = Append(requests, Request(w, call[w], gen[w].page))
    /\ inflight' = inflight + 1
    /\ gen' = [gen EXCEPT ![w].pc = "wait"]
    /\ UNCHANGED <<pageVars, server, call, consumer, asked, out, raised>>

\* A client that keeps one page counter for all its walks: the next index
\* follows the client's last request.
NextPageIndexShared(page) == Len(requests) + 1

\* A walk that skips a page index.
NextPageIndexSkips(page) == page + 2

\* `page += 1`: the page index the generator moves to after a page with a
\* next link.
NextPageIndex(page) == page + 1

\* A walk that answers a failed fetch by fetching the same page again.
ReceivePageRetry(w) ==
    /\ gen[w].pc = "wait"
    /\ \E shape \in ServerShapes(gen[w].page) :
         LET r == list_paginated(Respond(call[w].path, gen[w].page, shape)) IN
         /\ server' = (gen[w].page :> shape) @@ server
         /\ inflight' = inflight - 1
         /\ gen' = [gen EXCEPT ![w] =
                      IF r.tag = "raise" THEN [@ EXCEPT !.pc = "call"]
                      ELSE [@ EXCEPT !.pc = "items", !.p = r.value, !.i = 0]]
    /\ UNCHANGED <<pageVars, call, consumer, asked, out, raised, requests>>

\* A walk that swallows the exception of a fetch and ends as if the pages
\* were exhausted.
ReceivePageSwallow(w) ==
    /\ gen[w].pc = "wait"
    /\ \E shape \in ServerShapes(gen[w].page) :
         LET r == list_paginated(Respond(call[w].path, gen[w].page, shape)) IN
         /\ server' = (gen[w].page :> shape) @@ server
         /\ inflight' = inflight - 1
         /\ IF r.tag = "raise"
            THEN /\ gen' = [gen EXCEPT ![w].pc = "done"]
                 /\ consumer' = [consumer EXCEPT ![w] = "finished"]
            ELSE /\ gen' = [gen EXCEPT ![w] = [@ EXCEPT !.pc = "items", !.p = r.value, !.i = 0]]
                 /\ UNCHANGED consumer
    /\ UNCHANGED <<pageVars, call, asked, out, raised, requests>>

\* The GET is answered and list_paginated returns the Page or raises; an
\* exception leaves the generator and reaches the consumer's next().
ReceivePage(w) ==
    /\ gen[w].pc = "wait"
    /\ \E shape \in ServerShapes(gen[w].page) :
         LET r == list_paginated(Respond(call[w].path, gen[w].page, shape)) IN
         /\ server' = (gen[w].page :> shape) @@ server
         /\ inflight' = inflight - 1
         /\ IF r.tag = "raise"
            THEN /\ gen' = [gen EXCEPT ![w].pc = "raised"]
                 /\ consumer' = [consumer EXCEPT ![w] = "failed"]
                 /\ raised' = [raised EXCEPT ![w] = r]
            ELSE /\ gen' = [gen EXCEPT ![w] = [@ EXCEPT !.pc = "items", !.p = r.value, !.i = 0]]
                 /\ UNCHANGED <<consumer, raised>>
    /\ UNCHANGED <<pageVars, call, asked, out, requests>>

\* A generator that yields the items of a page last to first.
YieldFromReversed(p, i) == p.items[Len(p.items) - i]

\* The value `yield from p.items` produces after i items of the page.
YieldFrom(p, i) == p.items[i + 1]

\* A stream_all that builds the whole page's items without suspending: the
\* item is handed over and the body keeps running.
YieldItemEager(w) ==
    /\ gen[w].pc = "items"
    /\ gen[w].i < Len(gen[w].p.items)
    /\ out' = [out EXCEPT ![w] = Append(@, YieldFrom(gen[w].p, gen[w].i))]
    /\ gen' = [gen EXCEPT ![w].i = @ + 1]
    /\ UNCHANGED <<pageVars, server, call, consumer, asked, raised, requests, inflight>>

\* yield from p.items: the next item of the page goes to the consumer and the
\* generator is suspended.
YieldItem(w) ==
    /\ gen[w].pc = "items"
    /\ gen[w].i < Len(gen[w].p.items)
    /\ out' = [out EXCEPT ![w] = Append(@, YieldFrom(gen[w].p, gen[w].i))]
    /\ gen' = [gen EXCEPT ![w] = [@ EXCEPT !.pc = "suspended", !.i = @ + 1]]
    /\ consumer' = [consumer EXCEPT ![w] = "consuming"]
    /\ UNCHANGED <<pageVars, server, call, asked, raised, requests, inflight>>

\* A walk that never breaks out of its loop.
StopsNever(p) == FALSE

\* A walk that also stops when `_page` has reached `_page_count`.
StopsAfterPageCount(p) ==
    \/ ~TruthyStr(p.next_url)
    \/ p.page # None /\ p.page_count # None /\ p.page[1] >= p.page_count[1]

\* A walk that also stops at a page without items.
StopsAfterEmptyPage(p) == ~TruthyStr(p.next_url) \/ p.items = <<>>

\* `if not p.next_url`
StopsAfter(p) == ~TruthyStr(p.next_url)

\* The page's items are exhausted: `if not p.next_url: break` ends the
\* generator (the consumer's next() gets StopIteration), else page += 1 and
\* the loop fetches again.
EndOfPage(w) ==
    /\ gen[w].pc = "items"
    /\ gen[w].i = Len(gen[w].p.items)
    /\ IF StopsAfter(gen[w].p)
       THEN /\ gen' = [gen EXCEPT ![w].pc = "done"]
            /\ consumer' = [consumer EXCEPT ![w] = "finished"]
       ELSE /\ gen' = [gen EXCEPT ![w] = [@ EXCEPT !.pc = "call", !.page = NextPageIndex(@)]]
            /\ UNCHANGED consumer
    /\ UNCHANGED <<pageVars, server, call, asked, out, raised, requests, inflight>>

(***************************************************************************)
(* Spec: one walk of stream_all against the server.                        *)
(***************************************************************************)
\* No direct call was made on the client.
NoCalls == calls = <<>> /\ replies = <<>>

\* The command-line tool was never run: there is no config file.
NoFile == [exists |-> FALSE, doc |-> <<>>]
NoRun == [cmd |-> "none"]
NoRuns == file = NoFile /\ run = NoRun /\ lastSet = <<>>

\* No loader and no list command was called, no interactive session began.
NoApp == [fn |-> "none"]
NoUi == [pc |-> "none"]
NoApps == app = NoApp /\ ui = NoUi

Init ==
    /\ response = TransportError
    /\ result = NoResult
    /\ Started({1})
    /\ NoCalls
    /\ NoRuns
    /\ NoApps

\* A step of walk w: of its consumer or of its generator.
WalkStep(w) ==
    \/ ConsumerNext(w)
    \/ ConsumerStop(w)
    \/ SendGet(w)
    \/ ReceivePage(w)
    \/ YieldItem(w)
    \/ EndOfPage(w)

Next == \E w \in Walks : WalkStep(w)

Spec == Init /\ [][Next]_vars

(***************************************************************************)
(* SpecPage: one direct call of list_paginated on any of the Responses.    *)
(***************************************************************************)
InitPage ==
    /\ response \in Responses
    /\ result = NoResult
    /\ WalksIdle
    /\ NoCalls
    /\ NoRuns
    /\ NoApps

ListPaginatedCall ==
    /\ result = NoResult
    /\ result' = list_paginated(response)
    /\ UNCHANGED <<response, walkVars, callVars, cliVars, appVars>>

NextPage == ListPaginatedCall

SpecPage == InitPage /\ [][NextPage]_vars

(***************************************************************************)
(* SpecCalls: up to MaxCalls direct calls of get, get_json and             *)
(* list_paginated on one client.  The server answers a request it has not  *)
(* seen with any of the CallResponses and a request it has seen as before. *)
(***************************************************************************)
Methods == {"get", "get_json", "list_paginated"}

\* Path and keyword arguments of a direct call.
CallArgs ==
    {[path |-> "/cinemas", params |-> <<>>],
     [path |-> "/cinemas", params |-> ("page" :> 1) @@ ("per_page" :> 10)]}

\* A HAL body as the API sends it: a list, a next link and the metadata.
SampleBody ==
    ObjectBody([_embedded |-> <<[k |-> "cinemas", v |-> JArray(<<1, 2>>)]>>,
                _links |-> [next |-> JObject([href |-> Href("/cinemas", 2)])],
                _page |-> 0, _page_count |-> 7, _total_items |-> 7])

Statuses == {200, 204, 301, 403, 404, 429, 500, 503}

CallResponses ==
    {HttpResponse(s, b) : s \in Statuses, b \in {SampleBody, ArrayBody, InvalidBody}}
    \cup {TransportError}

\* A client that numbers its requests: each GET carries how many were made
\* before it.
DirectRequestNumbered(a) ==
    [w |-> 0, path |-> a.path, params |-> ("seq" :> Len(requests)) @@ a.params]

\* self._client.get(path, params=params or None): the GET of a direct call.
DirectRequest(a) == [w |-> 0, path |-> a.path, params |-> a.params]

\* What the method returns or raises on the response the server gave.
Invoke(method, resp) ==
    CASE method = "get" -> get(resp)
      [] method = "get_json" -> get_json(resp)
      [] method = "list_paginated" -> list_paginated(resp)

\* Whether the call reached resp.json(): get never parses, get_json and
\* list_paginated parse what get returned.
Parses(method, resp) == method # "get" /\ get(resp).tag = "return"

DirectCall(method, a) ==
    /\ Len(calls) < MaxCalls
    /\ \E resp \in CallResponses :
        /\ DirectRequest(a) \in DOMAIN replies => resp = replies[DirectRequest(a)]
        /\ replies' = (DirectRequest(a) :> resp) @@ replies
        /\ requests' = Append(requests, DirectRequest(a))
        /\ calls' = Append(calls, [method |-> method, path |-> a.path, params |-> a.params,
                                   request |-> Len(requests) + 1,
                                   result |-> Invoke(method, resp),
                                   parsed |-> Parses(method, resp)])
    /\ UNCHANGED <<response, result, server, call, gen, consumer, asked, out, raised, inflight,
                   cliVars, appVars>>

InitCalls ==
    /\ response = TransportError
    /\ result = NoResult
    /\ WalksIdle
    /\ NoCalls
    /\ NoRuns
    /\ NoApps

NextCalls == \E method \in Methods, a \in CallArgs : DirectCall(method, a)

SpecCalls == InitCalls /\ [][NextCalls]_vars

(***************************************************************************)
(* Claims about list_paginated, checked under SpecPage.                    *)
(***************************************************************************)
\* The direct call ran on a 2xx response whose body is a JSON object.
CalledOnObject ==
    /\ result # NoResult
    /\ response.kind = "response"
    /\ IsSuccess(response.status)
    /\ response.body.json = "object"

Data == response.body.data

\* Position i of `_embedded` holds a list and no earlier position does.
IsFirstListAt(e, i) ==
    /\ i \in 1..Len(e)
    /\ e[i].v.t = "array"
    /\ \A j \in 1..(i - 1) : e[j].v.t # "array"

HasListEntry(e) == \E i \in 1..Len(e) : e[i].v.t = "array"

\* C1: for a JSON-object body whose `_embedded` has a list-valued entry, items
\* is the first such entry in encoded order, whatever its key and whatever
\* stands before or after it; a later list is never returned or merged in.
C1_ItemsIsFirstEmbeddedList ==
    (CalledOnObject /\ "_embedded" \in DOMAIN Data) =>
        \A i \in 1..Len(Data["_embedded"]) :
            IsFirstListAt(Data["_embedded"], i) =>
                /\ result.tag = "return"
                /\ result.value.items = Data["_embedded"][i].v.a

\* C1 witness: two lists under `_embedded`, the second different from the
\* first, and the call returned the first.
C1_Witness ==
    /\ CalledOnObject
    /\ "_embedded" \in DOMAIN Data
    /\ Len(Data["_embedded"]) = 2
    /\ IsFirstListAt(Data["_embedded"], 1)
    /\ Data["_embedded"][2].v.t = "array"
    /\ Data["_embedded"][2].v.a # Data["_embedded"][1].v.a
    /\ Data["_embedded"][2].v.a # <<>>
    /\ result.tag = "return"
    /\ result.value.items = Data["_embedded"][1].v.a

\* C2: a JSON-object body without `_embedded`, or whose `_embedded` holds no
\* list, gives a Page (no exception) whose items is the empty list.
C2_NoListGivesEmptyItems ==
    (CalledOnObject /\ ("_embedded" \in DOMAIN Data => ~HasListEntry(Data["_embedded"]))) =>
        /\ result.tag = "return"
        /\ result.value.items = <<>>

\* C2 witness: a body without `_embedded` gave a Page with empty items.
C2_WitnessAbsent ==
    /\ CalledOnObject
    /\ "_embedded" \notin DOMAIN Data
    /\ result.tag = "return"
    /\ result.value.items = <<>>

\* C3: page, page_count and total_items are the body's `_page`, `_page_count`
\* and `_total_items` unchanged, and each is None exactly when its key is
\* missing from the body.
MetaCopied(field, key) ==
    /\ key \in DOMAIN Data => field = <<Data[key]>>
    /\ field = <<>> <=> key \notin DOMAIN Data

C3_MetadataPassthrough ==
    CalledOnObject =>
        /\ result.tag = "return"
        /\ MetaCopied(result.value.page, "_page")
        /\ MetaCopied(result.value.page_count, "_page_count")
        /\ MetaCopied(result.value.total_items, "_total_items")

\* C3 witness: one key present with 0, one present with another value, one
\* missing.
C3_Witness ==
    /\ CalledOnObject
    /\ result.tag = "return"
    /\ "_page" \in DOMAIN Data /\ Data["_page"] = 0 /\ result.value.page = <<0>>
    /\ "_page_count" \in DOMAIN Data /\ Data["_page_count"] = 7
    /\ result.value.page_count = <<7>>
    /\ "_total_items" \notin DOMAIN Data /\ result.value.total_items = <<>>

\* The body has `_links` with a `next` relation that is an object with an href.
HasNextHref ==
    /\ "_links" \in DOMAIN Data
    /\ "next" \in DOMAIN Data["_links"]
    /\ Data["_links"]["next"].t = "object"
    /\ "href" \in DOMAIN Data["_links"]["next"].o

\* C4: next_url is the href of `_links.next` when the body has one and None
\* otherwise, whatever other relations `_links` holds.
C4_NextUrlOnlyFromNextHref ==
    CalledOnObject =>
        /\ result.tag = "return"
        /\ HasNextHref => result.value.next_url = <<Data["_links"]["next"].o.href>>
        /\ ~HasNextHref => result.value.next_url = <<>>

\* C4 witness: `_links` holds other relations with hrefs and no next, and
\* next_url is None.
C4_Witness ==
    /\ CalledOnObject
    /\ "_links" \in DOMAIN Data
    /\ "next" \notin DOMAIN Data["_links"]
    /\ DOMAIN Data["_links"] # {}
    /\ result.tag = "return"
    /\ result.value.next_url = <<>>

(***************************************************************************)
(* Claims about stream_all, checked under Spec.                            *)
(***************************************************************************)
\* The requests of walk w, in the order they were issued.
Reqs(w) == SelectSeq(requests, LAMBDA r : r.w = w)

\* Page k was served as a page and carries a usable next link.
HasNextLink(k) ==
    /\ k \in DOMAIN server
    /\ server[k].kind = "page"
    /\ server[k].nxt \in {"follow", "elsewhere"}

\* Page k was served as a page and carries no next URL (no `next` relation,
\* or one whose href is the empty string).
NoNextLink(k) ==
    /\ k \in DOMAIN server
    /\ server[k].kind = "page"
    /\ server[k].nxt \in {"none", "empty"}

\* The fetch of page k failed.
FetchFailed(k) == k \in DOMAIN server /\ server[k].kind # "page"

\* The items of the server's pages 1..n, page by page, in server order.
RECURSIVE ItemsThrough(_)
ItemsThrough(n) ==
    IF n <= 0 THEN <<>> ELSE ItemsThrough(n - 1) \o ItemsOf(n, server[n].n)

\* C5: the walk stops exactly when a fetched page has no next URL: no request
\* follows such a page even if its `_page_count` and `_total_items` say more
\* pages remain, a walk ends (StopIteration) only after such a page, and when
\* it is the first page the walk made one fetch and yielded that page's items.
C5_StopsExactlyWithoutNextUrl ==
    \A w \in Walks :
        LET n == Len(Reqs(w)) IN
        /\ \A k \in 1..n : NoNextLink(k) => n = k
        /\ consumer[w] = "finished" => NoNextLink(n)
        /\ consumer[w] = "finished" /\ NoNextLink(1) =>
              n = 1 /\ out[w] = ItemsOf(1, server[1].n)

\* C5 witness: a consumed walk that went on after a page whose metadata said
\* it was the last and ended at a page whose metadata said more remain.
C5_Witness ==
    /\ consumer[1] = "finished"
    /\ Len(Reqs(1)) = 2
    /\ server[1].nxt = "follow" /\ server[1].meta = "last"
    /\ server[2].nxt = "none" /\ server[2].meta = "more"
    /\ out[1] # <<>>

\* C6: a walk consumed to its end fetched exactly the pages 1..N, where page N
\* is the first without a next link, and yielded exactly the concatenation
\* of their items in page order and server order.
C6_YieldsPagesInOrder ==
    \A w \in Walks :
        consumer[w] = "finished" =>
            LET n == Len(Reqs(w)) IN
            /\ DOMAIN server = 1..n
            /\ \A k \in 1..(n - 1) : HasNextLink(k)
            /\ NoNextLink(n)
            /\ out[w] = ItemsThrough(n)

\* C6 witness: a fully consumed walk over three pages with items on each.
C6_Witness ==
    /\ consumer[1] = "finished"
    /\ Len(Reqs(1)) = 3
    /\ \A k \in 1..3 : server[k].n = 2
    /\ Len(out[1]) = 6

\* C7: the k-th request of a walk carries page = k, the caller's per_page (50
\* when not given), the caller's path and the caller's extra parameters, and
\* nothing else.
C7_RequestsCarryIndexAndFixedArgs ==
    \A w \in Walks :
        \A k \in 1..Len(Reqs(w)) :
            LET r == Reqs(w)[k] IN
            /\ r.path = call[w].path
            /\ DOMAIN r.params = {"page", "per_page"} \cup DOMAIN call[w].params
            /\ r.params["page"] = k
            /\ r.params["per_page"] = IF call[w].per_page = <<>> THEN 50 ELSE call[w].per_page[1]
            /\ \A key \in DOMAIN call[w].params : r.params[key] = call[w].params[key]

\* C7 witness: three requests of a walk called without per_page.
C7_Witness ==
    /\ Len(Reqs(1)) = 3
    /\ call[1].per_page = <<>>
    /\ Reqs(1)[3].params["page"] = 3
    /\ Reqs(1)[3].params["per_page"] = 50

\* The href of the next link of served page k, as the walk w received it.
NextLinkHref(w, k) == WalkData(call[w].path, k, server[k])["_links"]["next"].o.href

\* C8 as claimed: the request issued after a page with a next link is for the
\* location that link's href designates.
C8_RequestIsForHrefLocation ==
    \A w \in Walks :
        \A k \in 1..(Len(Reqs(w)) - 1) :
            HasNextLink(k) =>
                /\ Reqs(w)[k + 1].path = NextLinkHref(w, k).path
                /\ Reqs(w)[k + 1].params["page"] = NextLinkHref(w, k).page

\* C8 amended: a next link only tells the walk to go on.  A further request
\* is issued only after a page with a next link, and it is for the previous
\* request's path with the page index one higher, whatever the href designates.
C8_NextLinkOnlySignalsContinuation ==
    \A w \in Walks :
        \A k \in 1..(Len(Reqs(w)) - 1) :
            /\ HasNextLink(k)
            /\ Reqs(w)[k + 1].path = Reqs(w)[k].path
            /\ Reqs(w)[k + 1].params["page"] = Reqs(w)[k].params["page"] + 1

\* C8 witness: a request issued after a page whose href designates another
\* page than the one requested.
C8_Witness ==
    /\ Len(Reqs(1)) >= 2
    /\ server[1].kind = "page" /\ server[1].nxt = "elsewhere"
    /\ Reqs(1)[2].params["page"] = 2
    /\ NextLinkHref(1, 1).page # 2

\* C9: the walk is lazy.  At most one GET is in flight, and only inside a
\* next() call; page n is requested only once the consumer has asked for more
\* items than the pages before n hold; a consumer that stops after K items has
\* caused no fetch beyond the page holding the K-th item, and the generator
\* runs no more.
C9_LazyNoPrefetch ==
    /\ inflight <= 1
    /\ \A w \in Walks :
        LET n == Len(Reqs(w)) IN
        /\ gen[w].pc = "wait" => consumer[w] = "in_next" /\ inflight = 1
        /\ Len(out[w]) <= asked[w]
        /\ n >= 1 => asked[w] > Len(ItemsThrough(n - 1))
        /\ consumer[w] = "stopped" =>
              /\ Len(out[w]) = 0 => n = 0
              /\ Len(out[w]) > 0 =>
                    /\ Len(ItemsThrough(n - 1)) < Len(out[w])
                    /\ Len(out[w]) <= Len(ItemsThrough(n))
              /\ ~ENABLED WalkStep(w)

\* C9 witness: a consumer that read three items over pages of two and
\* stopped, with two fetches made and a next link on the second page.
C9_Witness ==
    /\ consumer[1] = "stopped"
    /\ Len(out[1]) = 3
    /\ server[1].n = 2 /\ server[2].n = 2
    /\ HasNextLink(2)
    /\ Len(Reqs(1)) = 2

\* The exception list_paginated raises for a failed fetch of each kind.
ErrorOf(shape) ==
    CASE shape.kind = "transport" -> [tag |-> "raise", exc |-> "ConnectError", status |-> 0]
      [] shape.kind = "status500" -> [tag |-> "raise", exc |-> "HTTPStatusError", status |-> 500]
      [] shape.kind = "status404" -> [tag |-> "raise", exc |-> "HTTPStatusError", status |-> 404]
      [] shape.kind = "not_json" -> [tag |-> "raise", exc |-> "JSONDecodeError", status |-> 0]

\* C10: when the fetch of page N fails, the consumer has received exactly the
\* items of pages 1..N-1, gets the error from the next() that asked for the
\* item after them (the first next() when N = 1), and the walk is over: no
\* further item, no further request.  A walk fails only that way.
C10_FailedFetchAbortsWalk ==
    \A w \in Walks :
        LET n == Len(Reqs(w)) IN
        /\ \A k \in 1..n :
              FetchFailed(k) =>
                  /\ n = k
                  /\ consumer[w] = "failed"
                  /\ raised[w] = ErrorOf(server[k])
                  /\ out[w] = ItemsThrough(k - 1)
                  /\ asked[w] = Len(out[w]) + 1
                  /\ ~ENABLED WalkStep(w)
        /\ consumer[w] = "failed" => FetchFailed(n)
        /\ consumer[w] # "failed" => raised[w] = NoResult

\* C10 witness: the third fetch failed after two pages of items were yielded.
C10_Witness ==
    /\ consumer[1] = "failed"
    /\ Len(Reqs(1)) = 3
    /\ server[3].kind = "transport"
    /\ Len(out[1]) = 4

\* C10 witness for N = 1: the first next() raised and nothing was yielded.
C10_WitnessFirstPage ==
    /\ consumer[1] = "failed"
    /\ Len(Reqs(1)) = 1
    /\ raised[1].exc = "HTTPStatusError"
    /\ asked[1] = 1
    /\ out[1] = <<>>

(***************************************************************************)
(* Claims about the direct calls of the client, checked under SpecCalls.   *)
(***************************************************************************)
\* The response the server gave to direct call c.
ReplyTo(c) == replies[DirectRequest(c)]

\* C11: a direct call of get, get_json or list_paginated whose response has a
\* status outside 200..299 raises HTTPStatusError carrying that status: it
\* returns no response, JSON value or Page, and it has not parsed the body.
C11_NonSuccessRaisesStatusError ==
    \A i \in 1..Len(calls) :
        LET c == calls[i]
            resp == ReplyTo(c)
        IN  (resp.kind = "response" /\ (resp.status < 200 \/ resp.status > 299)) =>
                /\ c.result = Raise("HTTPStatusError", resp.status)
                /\ ~c.parsed

\* C11 witness: list_paginated got a 404 whose body is a well-formed HAL
\* object, and get_json got a redirect; both raised.
C11_Witness ==
    /\ Len(calls) = 2
    /\ calls[1].method = "list_paginated"
    /\ ReplyTo(calls[1]) = HttpResponse(404, SampleBody)
    /\ calls[1].result.tag = "raise"
    /\ calls[2].method = "get_json"
    /\ ReplyTo(calls[2]) = HttpResponse(301, InvalidBody)
    /\ calls[2].result = Raise("HTTPStatusError", 301)

(***************************************************************************)
(* Claims about retries, checked under Spec.                               *)
(***************************************************************************)
\* The list_paginated calls walk w has made that have issued their GET: the
\* loop body calls it once per value of the page counter, and at "call" the
\* current call has not sent yet.
CallsSent(w) == IF gen[w].pc = "call" THEN gen[w].page - 1 ELSE gen[w].page

\* C12: the walker never retries and never swallows an error: each
\* list_paginated call of a walk issued exactly one GET whatever its outcome,
\* no page index was requested twice, and a failed request is the walk's last
\* request and has reached the consumer as its exception.
C12_NoRetryNoSwallow ==
    \A w \in Walks :
        LET rs == Reqs(w)
            n == Len(rs)
        IN  /\ n = CallsSent(w)
            /\ \A i, j \in 1..n : rs[i].params["page"] = rs[j].params["page"] => i = j
            /\ \A k \in 1..n :
                  FetchFailed(rs[k].params["page"]) =>
                      /\ k = n
                      /\ raised[w] = ErrorOf(server[rs[k].params["page"]])

\* C12 witness: the second fetch of the walk failed with a 500 and the walk
\* is over after two requests.
C12_Witness ==
    /\ Len(Reqs(1)) = 2
    /\ FetchFailed(2)
    /\ raised[1] = Raise("HTTPStatusError", 500)
    /\ ~ENABLED WalkStep(1)

(***************************************************************************)
(* SpecTwo: two walks of stream_all on the same client, their consumers    *)
(* interleaved in any order.                                               *)
(***************************************************************************)
\* The servers of SpecTwo, decided before the walks begin: full pages with a
\* next link up to a last page, which has no next link, fails, or is the
\* server's last page and still has a next link (the fetch after it gets 404).
MorePage == Shape("page", MaxPageLen, "follow", "more")
LastPage == Shape("page", 1, "none", "absent")
FailedPage == Shape("transport", 0, "none", "absent")

TwoWalkServers ==
    {[k \in 1..n |-> IF k < n THEN MorePage ELSE l] :
        n \in 1..MaxPages, l \in {LastPage, FailedPage}}
    \cup {[k \in 1..MaxPages |-> MorePage]}

InitTwo ==
    /\ response = TransportError
    /\ result = NoResult
    /\ server \in TwoWalkServers
    /\ Generators({1, 2})
    /\ NoCalls
    /\ NoRuns
    /\ NoApps

SpecTwo == InitTwo /\ [][Next]_vars

(***************************************************************************)
(* Claims about interleaved walks, checked under SpecTwo.                  *)
(***************************************************************************)
\* The shape the server gives page k: beyond its pages, 404.
ShapeAt(k) == IF k \in DOMAIN server THEN server[k] ELSE NotFoundShape

\* stream_all run alone on the server: the walk is about to fetch page k with
\* a next() pending, `a` calls of next() are still to return (the pending one
\* included) and `acc` has been yielded.  The result is the number of pages
\* requested, the items yielded and how the walk stands once those calls
\* have returned.
RECURSIVE LoneWalk(_, _, _)
LoneWalk(k, a, acc) ==
    LET shape == ShapeAt(k)
        items == ItemsOf(k, shape.n)
    IN  IF shape.kind # "page" THEN [pages |-> k, out |-> acc, end |-> "failed"]
        ELSE IF a <= shape.n
        THEN [pages |-> k, out |-> acc \o SubSeq(items, 1, a), end |-> "consuming"]
        ELSE IF shape.nxt \in {"none", "empty"}
        THEN [pages |-> k, out |-> acc \o items, end |-> "finished"]
        ELSE LoneWalk(k + 1, a - shape.n, acc \o items)

Alone(a) ==
    IF a = 0 THEN [pages |-> 0, out |-> <<>>, end |-> "consuming"]
    ELSE LoneWalk(1, a, <<>>)

\* C13: walks are independent and restartable: whenever no next() of walk w
\* is under way, w has issued the requests (page 1, 2, ... with its own path
\* and arguments) and received the items that stream_all run alone on the
\* same server has after as many next() calls, whatever the other walk did
\* in between; and a walk's page counter changes only in its own steps.
C13_WalksIndependent ==
    /\ [](\A w \in Walks :
            consumer[w] # "in_next" =>
                LET r == Alone(asked[w]) IN
                /\ Reqs(w) = [k \in 1..r.pages |-> Request(w, call[w], k)]
                /\ out[w] = r.out
                /\ consumer[w] \in {r.end, "stopped"}
                /\ consumer[w] = "stopped" => r.end = "consuming")
    /\ [][\A w \in Walks :
            gen'[w].page # gen[w].page => ConsumerNext(w) \/ EndOfPage(w)]_vars

\* C13 witness: walk 2 made its first request after walk 1 had fetched two
\* pages, it asked for page 1, and both walks have since yielded the same
\* first three items.
C13_Witness ==
    /\ Len(requests) >= 4
    /\ requests[1].w = 1 /\ requests[2].w = 1 /\ requests[3].w = 2 /\ requests[4].w = 1
    /\ requests[3].params["page"] = 1
    /\ Len(out[1]) >= 3
    /\ out[2] = SubSeq(out[1], 1, 3)

(***************************************************************************)
(* SpecLive: one walk consumed to the end.  The consumer never leaves its  *)
(* loop; the program keeps running, and a GET is answered or fails (the    *)
(* client's timeout), so a step that can be taken is taken.                *)
(***************************************************************************)
WalkStepLive(w) ==
    \/ ConsumerNext(w)
    \/ SendGet(w)
    \/ ReceivePage(w)
    \/ YieldItem(w)
    \/ EndOfPage(w)

NextLive == WalkStepLive(1)

SpecLive == Init /\ [][NextLive]_vars /\ WF_vars(NextLive)

\* C14: a walk consumed to the end terminates exactly through a page without
\* a next link or a failed fetch: it always ends; once page N was served
\* without the link, N stays its last request and it does not fail, so it
\* ends (StopIteration) at page N; it ends normally only after such a page,
\* whatever `_page_count` and `_total_items` say, and it ends with an
\* exception only after a failed fetch.
C14_EndsExactlyAtMissingNextLink ==
    /\ <>(consumer[1] \in {"finished", "failed"})
    /\ [](\A k \in DOMAIN server :
            NoNextLink(k) => Len(Reqs(1)) = k /\ consumer[1] # "failed")
    /\ [](consumer[1] = "finished" => NoNextLink(Len(Reqs(1))))
    /\ [](consumer[1] = "failed" => FetchFailed(Len(Reqs(1))))

\* C14 witness: the walk ended at page 2, the first page without a next
\* link, although page 1 said it was the last page and page 2 says more
\* pages remain.
C14_Witness ==
    /\ consumer[1] = "finished"
    /\ Len(Reqs(1)) = 2
    /\ server[1].nxt = "follow" /\ server[1].meta = "last"
    /\ server[2].nxt = "none" /\ server[2].meta = "more"

HrefPresent(data) ==
    /\ "_links" \in DOMAIN data
    /\ "next" \in DOMAIN data["_links"]
    /\ data["_links"]["next"].t = "object"
    /\ "href" \in DOMAIN data["_links"]["next"].o

\* C16: on a 2xx JSON-object body list_paginated never fails, whichever of
\* `_embedded`, `_links`, `_links.next`, `_links.next.href`, `_page`,
\* `_page_count`, `_total_items` are missing: it returns a Page whose items
\* are empty when `_embedded` is missing and whose other fields are absent
\* when their source is missing.
C16_MissingPartsNeverFail ==
    CalledOnObject =>
        /\ result.tag = "return"
        /\ "_embedded" \notin DOMAIN Data => result.value.items = <<>>
        /\ ~HrefPresent(Data) => result.value.next_url = None
        /\ "_page" \notin DOMAIN Data => result.value.page = None
        /\ "_page_count" \notin DOMAIN Data => result.value.page_count = None
        /\ "_total_items" \notin DOMAIN Data => result.value.total_items = None

\* C16 witness: the body is the empty object and the Page is all empty.
C16_Witness ==
    /\ CalledOnObject
    /\ Data = <<>>
    /\ result = Return(Page(<<>>, None, None, None, None))

\* C16 witness with a partial body: `_links.next` is there without an href
\* and the metadata is missing, next to a list of items.
C16_WitnessNextWithoutHref ==
    /\ CalledOnObject
    /\ DOMAIN Data = {"_embedded", "_links"}
    /\ "next" \in DOMAIN Data["_links"]
    /\ ~HrefPresent(Data)
    /\ Len(result.value.items) = 2
    /\ result.value.next_url = None

\* The direct call ran on a 2xx response whose body is not a JSON object.
CalledOnNonObject ==
    /\ result # NoResult
    /\ response.kind = "response"
    /\ response.status >= 200 /\ response.status <= 299
    /\ response.body.json # "object"

\* C17: on a 2xx body that is not JSON, or is a JSON array or scalar,
\* list_paginated raises (json.JSONDecodeError from resp.json(),
\* AttributeError from data.get): an exception that is neither the transport
\* error nor the HTTP status error, and no Page comes back.
C17_MalformedBodyRaises ==
    CalledOnNonObject =>
        /\ result.tag = "raise"
        /\ result.exc \notin {"ConnectError", "HTTPStatusError"}
        /\ response.body.json = "invalid" <=> result.exc = "JSONDecodeError"

\* C17 witness: the body was a JSON array and the call raised.
C17_Witness ==
    /\ CalledOnNonObject
    /\ response.body = ArrayBody
    /\ result.tag = "raise"

\* C17 witness for a body that is not JSON.
C17_WitnessNotJson ==
    /\ CalledOnNonObject
    /\ response.body = InvalidBody
    /\ result = Raise("JSONDecodeError", 0)

(***************************************************************************)
(* The command-line tool (src/src/cineamoquery/cli.py).                    *)
(*                                                                         *)
(* Text.  A string is a sequence of characters; a run of letters, `_` and  *)
(* `-` that nothing takes apart is written as one element.                 *)
(***************************************************************************)
Quote == "\""
Backslash == "\\"
Slash == "/"
Dot == "."
Digits == <<"0", "1", "2", "3", "4", "5", "6", "7", "8", "9">>
Words == {"base_url", "timeout", "a", "b", "abc", "https", "api", "cineamo", "com",
          "cli", "env", "cfg"}

IsDigit(c) == \E i \in 1..Len(Digits) : Digits[i] = c
DigitValue(c) == (CHOOSE i \in 1..Len(Digits) : Digits[i] = c) - 1

\* str.rstrip("/")
RECURSIVE RStrip(_)
RStrip(s) ==
    IF s # <<>> /\ s[Len(s)] = Slash THEN RStrip(SubSeq(s, 1, Len(s) - 1)) ELSE s

\* A float: n / 10^e, with no trailing zero in the fraction.
RECURSIVE Float(_, _)
Float(n, e) == IF e > 0 /\ n % 10 = 0 THEN Float(n \div 10, e - 1) ELSE [n |-> n, e |-> e]

RECURSIVE DigitsValue(_)
DigitsValue(ds) ==
    IF ds = <<>> THEN 0
    ELSE DigitsValue(SubSeq(ds, 1, Len(ds) - 1)) * 10 + DigitValue(ds[Len(ds)])

\* float(s) of an unsigned decimal: digits with at most one point and at
\* least one digit give Some(value); any other text is a ValueError (None).
float(s) ==
    LET points == {i \in 1..Len(s) : s[i] = Dot}
        digits == SelectSeq(s, IsDigit)
    IN  IF \/ digits = <<>>
           \/ Cardinality(points) > 1
           \/ \E i \in 1..Len(s) : ~IsDigit(s[i]) /\ s[i] # Dot
        THEN None
        ELSE Some(Float(DigitsValue(digits),
                        IF points = {} THEN 0 ELSE Len(s) - (CHOOSE i \in points : TRUE)))

(***************************************************************************)
(* TOML, as tomli_w writes and tomllib reads a mapping of strings: one     *)
(* line `key = "value"` per entry.  A mapping is the dict's entries in     *)
(* insertion order.                                                        *)
(***************************************************************************)
RECURSIVE Escape(_)
Escape(s) ==
    IF s = <<>> THEN <<>>
    ELSE (IF Head(s) \in {Quote, Backslash} THEN <<Backslash, Head(s)>> ELSE <<Head(s)>>)
         \o Escape(Tail(s))

RECURSIVE Unescape(_)
Unescape(t) ==
    IF t = <<>> THEN <<>>
    ELSE IF Head(t) = Backslash /\ Len(t) >= 2
    THEN <<t[2]>> \o Unescape(SubSeq(t, 3, Len(t)))
    ELSE <<Head(t)>> \o Unescape(Tail(t))

\* A basic string: the text between quotes, escaped.
BasicString(s) == <<Quote>> \o Escape(s) \o <<Quote>>
ParseString(t) == Unescape(SubSeq(t, 2, Len(t) - 1))

\* A key is written bare when it is made of letters, digits, `_` and `-`.
IsBareKey(k) == k # <<>> /\ \A i \in 1..Len(k) : k[i] \in Words \/ IsDigit(k[i])
FormatKey(k) == IF IsBareKey(k) THEN k ELSE BasicString(k)

\* tomli_w.dumps(cfg)
dumps(cfg) ==
    [i \in 1..Len(cfg) |-> [key |-> FormatKey(cfg[i].k), value |-> BasicString(cfg[i].v)]]

\* tomllib.load(f): a quoted key is its string; a bare key with a point is a
\* dotted key and opens a table named by its first part.
LoadLine(line) ==
    IF line.key[1] = Quote THEN [k |-> ParseString(line.key), v |-> ParseString(line.value)]
    ELSE IF \E i \in 1..Len(line.key) : line.key[i] = Dot
    THEN [k |-> <<line.key[1]>>, v |-> <<"{">> \o Tail(line.key) \o line.value \o <<"}">>]
    ELSE [k |-> line.key, v |-> ParseString(line.value)]

loads(doc) == [i \in 1..Len(doc) |-> LoadLine(doc[i])]

\* `key in cfg`, cfg[key], cfg.get(key, ""), cfg[key] = value
Has(cfg, key) == \E i \in 1..Len(cfg) : cfg[i].k = key
Item(cfg, key) == cfg[CHOOSE i \in 1..Len(cfg) : cfg[i].k = key].v
GetOrEmpty(cfg, key) == IF Has(cfg, key) THEN Item(cfg, key) ELSE <<>>
SetItem(cfg, key, value) ==
    IF Has(cfg, key)
    THEN [i \in 1..Len(cfg) |-> IF cfg[i].k = key THEN [k |-> key, v |-> value] ELSE cfg[i]]
    ELSE Append(cfg, [k |-> key, v |-> value])

\* _load_config(): {} when the file is missing.
_load_config == IF ~file.exists THEN <<>> ELSE loads(file.doc)

\* _save_config(cfg): the file after it.
_save_config(cfg) == [exists |-> TRUE, doc |-> dumps(cfg)]

(***************************************************************************)
(* main: the group callback, run before every subcommand.  It loads the    *)
(* config file and builds the client from flags, environment and config.   *)
(***************************************************************************)
DefaultBase == <<"https", ":", Slash, Slash, "api", Dot, "cineamo", Dot, "com">>
DefaultTimeout == Float(15, 0)

KeyBaseUrl == <<"base_url">>
KeyTimeout == <<"timeout">>

\* CineamoClient(base_url, timeout)
CineamoClient(base_url, timeout) == [base_url |-> RStrip(base_url), timeout |-> timeout]

\* The value click passes for --base-url (envvar CINEAMO_BASE_URL): the flag
\* when given, else the environment variable, else None.
BaseUrlOption(opts) == IF opts.base_url # None THEN opts.base_url ELSE opts.env

\* A main that lets the config file override the --timeout flag.
EffTimeoutConfigFirst(opts, cfg) ==
    IF Has(cfg, KeyTimeout) THEN float(Item(cfg, KeyTimeout))
    ELSE IF opts.timeout # None THEN opts.timeout
    ELSE Some(DefaultTimeout)

\* eff_timeout: None stands for the ValueError of float().
EffTimeout(opts, cfg) ==
    IF opts.timeout # None THEN opts.timeout
    ELSE IF Has(cfg, KeyTimeout) THEN float(Item(cfg, KeyTimeout))
    ELSE Some(DefaultTimeout)

EffBase(opts, cfg) ==
    IF BaseUrlOption(opts) # None THEN BaseUrlOption(opts)[1]
    ELSE IF Has(cfg, KeyBaseUrl) THEN Item(cfg, KeyBaseUrl)
    ELSE DefaultBase

\* main(...): the client in ctx.obj, or the exception that ends the run.
main(opts, cfg) ==
    IF EffTimeout(opts, cfg) = None THEN Raise("ValueError", 0)
    ELSE Return(CineamoClient(EffBase(opts, cfg), EffTimeout(opts, cfg)[1]))

(***************************************************************************)
(* handle_api_errors: what the wrapper prints and how the wrapped command  *)
(* ends, from what the command returned or raised.                         *)
(***************************************************************************)
Message(text, code) == [msg |-> text, code |-> code]
Echo(text) == [echo |-> text]

\* Subclasses of httpx.RequestError the client's GET can raise.
IsRequestError(exc) == exc \in {"ConnectError"}

\* A wrapper with one message for every HTTP status.
handle_api_errors_generic(r) ==
    IF r.tag = "return" THEN [out |-> <<>>, end |-> "return"]
    ELSE IF r.exc = "HTTPStatusError"
    THEN [out |-> <<Message("API returned", r.status)>>, end |-> "abort"]
    ELSE IF IsRequestError(r.exc)
    THEN [out |-> <<Message("Could not connect to API. Check your network connection.", 0)>>,
          end |-> "abort"]
    ELSE [out |-> <<>>, end |-> "raise"]

handle_api_errors(r) ==
    IF r.tag = "return" THEN [out |-> <<>>, end |-> "return"]
    ELSE IF r.exc = "HTTPStatusError"
    THEN [out |-> << IF r.status = 404 THEN Message("Resource not found", 0)
                     ELSE IF r.status = 429
                     THEN Message("Rate limit exceeded. Please try again later.", 0)
                     ELSE IF r.status >= 500
                     THEN Message("Server error. Please try again later.", r.status)
                     ELSE Message("API returned", r.status) >>,
          end |-> "abort"]
    ELSE IF IsRequestError(r.exc)
    THEN [out |-> <<Message("Could not connect to API. Check your network connection.", 0)>>,
          end |-> "abort"]
    ELSE [out |-> <<>>, end |-> "raise"]

\* get_cinema: client.get_json, then the JSON text or the table of its
\* fields (data.get on each: AttributeError when data is no object).
get_cinema(resp, fmt) ==
    LET r == get_json(resp) IN
    IF r.tag = "raise" THEN r
    ELSE IF fmt = "rich" /\ r.value.json # "object" THEN Raise("AttributeError", 0)
    ELSE Return(<<Echo(<<fmt>>)>>)

\* The exit status of a run: 0 on return, 1 on click.Abort and on an
\* exception that nothing catches.
ExitStatus(end) == IF end = "return" THEN 0 ELSE 1

(***************************************************************************)
(* SpecCli: runs of the command-line tool, one after the other, on the     *)
(* same config file: `config set`, `config get`, `config show` and         *)
(* `cinema`, each with any of the Options.  A run is main, then the        *)
(* subcommand.                                                             *)
(***************************************************************************)
UrlCli == <<"https", ":", Slash, Slash, "cli">>
UrlEnv == <<"https", ":", Slash, Slash, "env", Slash>>
UrlCfg == <<"https", ":", Slash, Slash, "cfg", Slash, Slash>>

Options ==
    [base_url : Optional({UrlCli}), env : Optional({UrlEnv}),
     timeout : Optional({Float(5, 0)})]

\* The options `config` runs are tried with: no option, or --timeout.
ConfigOptions == {o \in Options : o.base_url = None /\ o.env = None}
NoOptions == [base_url |-> None, env |-> None, timeout |-> None]

\* The `config set` runs tried: KEY and VALUE.
KeyDotted == <<"a", Dot, "b">>
ConfigKeys == {KeyBaseUrl, KeyTimeout, KeyDotted}
SetArgs ==
    {[key |-> KeyBaseUrl, value |-> UrlCfg],
     [key |-> KeyTimeout, value |-> <<"2", "5", Dot, "0">>],
     [key |-> KeyTimeout, value |-> <<"abc">>],
     [key |-> KeyDotted, value |-> <<"abc">>],
     [key |-> KeyDotted, value |-> <<"a", Quote, Backslash>>]}

CinemaResponses ==
    {HttpResponse(s, InvalidBody) : s \in Statuses}
    \cup {HttpResponse(200, SampleBody), HttpResponse(200, ArrayBody), TransportError}

\* The `cinema` runs tried: every answer of the API without options, and
\* every combination of options on a good answer.
CinemaRuns ==
    {c \in [opts : Options, fmt : {"rich", "json"}, resp : CinemaResponses] :
        c.opts = NoOptions \/ (c.fmt = "json" /\ c.resp = HttpResponse(200, SampleBody))}

\* A run that main ended with an exception: no subcommand ran.
EndedInMain(cmd, opts, args, exc) ==
    [cmd |-> cmd, opts |-> opts, args |-> args, client |-> None, out |-> <<>>,
     exit |-> ExitStatus("raise"), exc |-> exc]

\* config set KEY VALUE
ConfigSet(opts, key, value) ==
    LET cfg == _load_config
        m == main(opts, cfg)
        args == [key |-> key, value |-> value]
    IN  /\ UNCHANGED <<response, result, walkVars, callVars, appVars>>
        /\ IF m.tag = "raise"
           THEN /\ run' = EndedInMain("config set", opts, args, m.exc)
                /\ UNCHANGED <<file, lastSet>>
           ELSE /\ file' = _save_config(SetItem(cfg, key, value))
                /\ run' = [cmd |-> "config set", opts |-> opts, args |-> args,
                           client |-> Some(m.value), out |-> <<Echo(<<"Set ">> \o key)>>,
                           exit |-> ExitStatus("return"), exc |-> ""]
                /\ lastSet' = (key :> value) @@ lastSet

\* config get KEY
ConfigGet(opts, key) ==
    LET cfg == _load_config
        m == main(opts, cfg)
        args == [key |-> key]
    IN  /\ run' = IF m.tag = "raise" THEN EndedInMain("config get", opts, args, m.exc)
                  ELSE [cmd |-> "config get", opts |-> opts, args |-> args,
                        client |-> Some(m.value), out |-> <<Echo(GetOrEmpty(cfg, key))>>,
                        exit |-> ExitStatus("return"), exc |-> ""]
        /\ UNCHANGED <<file, lastSet, response, result, walkVars, callVars, appVars>>

\* json.dumps(cfg, ensure_ascii=False, indent=2) of a mapping of strings.
RECURSIVE json_dumps(_)
json_dumps(cfg) ==
    IF cfg = <<>> THEN <<"{", "}">>
    ELSE LET rest == json_dumps(Tail(cfg)) IN
         <<"{">> \o BasicString(Head(cfg).k) \o <<":">> \o BasicString(Head(cfg).v)
         \o (IF Len(rest) = 2 THEN <<>> ELSE <<",">>) \o Tail(rest)

\* config show
ConfigShow(opts) ==
    LET cfg == _load_config
        m == main(opts, cfg)
    IN  /\ run' = IF m.tag = "raise" THEN EndedInMain("config show", opts, <<>>, m.exc)
                  ELSE [cmd |-> "config show", opts |-> opts, args |-> <<>>,
                        client |-> Some(m.value), out |-> <<Echo(json_dumps(cfg))>>,
                        exit |-> ExitStatus("return"), exc |-> ""]
        /\ UNCHANGED <<file, lastSet, response, result, walkVars, callVars, appVars>>

\* cinema --id ID --format FMT, the API answering with resp.
Cinema(opts, fmt, resp) ==
    LET m == main(opts, _load_config)
        args == [fmt |-> fmt, resp |-> resp]
        r == get_cinema(resp, fmt)
        h == handle_api_errors(r)
    IN  /\ run' = IF m.tag = "raise" THEN EndedInMain("cinema", opts, args, m.exc)
                  ELSE [cmd |-> "cinema", opts |-> opts, args |-> args,
                        client |-> Some(m.value),
                        out |-> IF h.end = "return" THEN r.value ELSE h.out,
                        exit |-> ExitStatus(h.end),
                        exc |-> CASE h.end = "return" -> ""
                                  [] h.end = "abort" -> "Abort"
                                  [] h.end = "raise" -> r.exc]
        /\ UNCHANGED <<file, lastSet, response, result, walkVars, callVars, appVars>>

InitCli ==
    /\ response = TransportError
    /\ result = NoResult
    /\ WalksIdle
    /\ NoCalls
    /\ NoRuns
    /\ NoApps

NextCli ==
    \/ \E opts \in ConfigOptions, a \in SetArgs : ConfigSet(opts, a.key, a.value)
    \/ \E opts \in ConfigOptions, key \in ConfigKeys : ConfigGet(opts, key)
    \/ \E opts \in ConfigOptions : ConfigShow(opts)
    \/ \E c \in CinemaRuns : Cinema(c.opts, c.fmt, c.resp)

SpecCli == InitCli /\ [][NextCli]_vars

(***************************************************************************)
(* Claims about the command-line tool, checked under SpecCli.              *)
(***************************************************************************)
\* The last run was `cinema`, main built the client, and the API answered
\* with a status outside 2xx or the transport failed.
CinemaFailed ==
    /\ run.cmd = "cinema"
    /\ run.client # None
    /\ \/ run.args.resp.kind = "transport"
       \/ run.args.resp.status < 200
       \/ run.args.resp.status > 299

\* C18: a wrapped command that fails against the API prints exactly one
\* classified message and exits with status 1: "Resource not found" for 404,
\* the rate-limit message for 429, "Server error (<code>)" for a status of
\* 500 or more, "API returned <code>" for any other HTTP status, and "Could
\* not connect to API" for a transport error.
C18_FailuresClassified ==
    CinemaFailed =>
        LET resp == run.args.resp IN
        /\ run.exit = 1
        /\ Len(run.out) = 1
        /\ resp.kind = "transport" =>
              run.out[1] = Message("Could not connect to API. Check your network connection.", 0)
        /\ resp.kind = "response" =>
              run.out[1] =
                  CASE resp.status = 404 -> Message("Resource not found", 0)
                    [] resp.status = 429 ->
                          Message("Rate limit exceeded. Please try again later.", 0)
                    [] resp.status >= 500 ->
                          Message("Server error. Please try again later.", resp.status)
                    [] OTHER -> Message("API returned", resp.status)

\* C18 witness: the API answered 503 and the run printed the server-error
\* message with the code and exited 1.
C18_Witness ==
    /\ CinemaFailed
    /\ run.args.resp.kind = "response"
    /\ run.args.resp.status = 503
    /\ run.out = <<Message("Server error. Please try again later.", 503)>>
    /\ run.exit = 1

\* C18 witness for a status that has no message of its own.
C18_WitnessOtherStatus ==
    /\ CinemaFailed
    /\ run.args.resp.kind = "response"
    /\ run.args.resp.status = 403
    /\ run.out = <<Message("API returned", 403)>>

\* C19: whenever a run builds its client, the client's base URL is the
\* --base-url flag if given, else CINEAMO_BASE_URL if set, else `base_url` of
\* the config file if present, else https://api.cineamo.com (trailing slashes
\* removed by the client), and its timeout is --timeout if given, else
\* `timeout` of the config file, else 15.0.
C19_ConfigPrecedence ==
    [][run'.client # None =>
          LET cfg == _load_config
              o == run'.opts
              c == run'.client[1]
          IN  /\ c.base_url =
                    RStrip(IF o.base_url # None THEN o.base_url[1]
                           ELSE IF o.env # None THEN o.env[1]
                           ELSE IF Has(cfg, KeyBaseUrl) THEN Item(cfg, KeyBaseUrl)
                           ELSE DefaultBase)
              /\ c.timeout =
                    (IF o.timeout # None THEN o.timeout[1]
                     ELSE IF Has(cfg, KeyTimeout) THEN float(Item(cfg, KeyTimeout))[1]
                     ELSE Float(15, 0))]_vars

\* C19 witness: with base_url and timeout in the config file and only the
\* environment variable set, the client has the environment's base URL and
\* the file's timeout.
C19_Witness ==
    /\ run.cmd = "cinema"
    /\ run.opts = [base_url |-> None, env |-> Some(UrlEnv), timeout |-> None]
    /\ Has(_load_config, KeyBaseUrl)
    /\ Has(_load_config, KeyTimeout)
    /\ run.client = Some([base_url |-> RStrip(UrlEnv), timeout |-> Float(25, 0)])

\* C19 witness: every source is there and the flags win.
C19_WitnessFlags ==
    /\ run.cmd = "cinema"
    /\ run.opts = [base_url |-> Some(UrlCli), env |-> Some(UrlEnv), timeout |-> Some(Float(5, 0))]
    /\ Has(_load_config, KeyBaseUrl)
    /\ Has(_load_config, KeyTimeout)
    /\ run.client = Some([base_url |-> UrlCli, timeout |-> Float(5, 0)])

\* C20: after any sequence of `config set` runs from no config file, `config
\* get k` prints the value of the last `config set k v`, and the config file
\* holds for every key that was set the value of its last `config set`,
\* whatever was set for other keys since.
C20_GetReturnsLastSet ==
    /\ (run.cmd = "config get" /\ run.args.key \in DOMAIN lastSet) =>
          /\ run.exit = 0
          /\ run.out = <<Echo(lastSet[run.args.key])>>
    /\ \A key \in DOMAIN lastSet :
          /\ Has(_load_config, key)
          /\ Item(_load_config, key) = lastSet[key]

\* C21: reading configuration never fails for absent data: `config show`
\* exits with status 0 and prints {} when no config file exists, and `config
\* get` of a key that no `config set` has set prints an empty value and exits
\* with status 0.
C21_ReadsNeverFail ==
    /\ run.cmd = "config show" =>
          /\ run.exit = 0
          /\ ~file.exists => run.out = <<Echo(<<"{", "}">>)>>
    /\ (run.cmd = "config get" /\ run.args.key \notin DOMAIN lastSet) =>
          /\ run.exit = 0
          /\ run.out = <<Echo(<<>>)>>

(***************************************************************************)
(* The callers of stream_all: the loaders of the interactive mode          *)
(* (src/src/cinemaquery/interactive.py) and the list commands of the       *)
(* command-line tool with --all.  Each runs `for x in                      *)
(* client.stream_all(...)` as walk 1, appends what it receives and leaves  *)
(* the loop when its limit is reached.                                     *)
(***************************************************************************)
MaxLimit == 3       \* the largest limit a caller is given

\* A loop that tests its limit before it appends.
LimitReachedLate(limit, count) == limit # 0 /\ count > limit

\* `if limit and len(cinemas) >= limit` (`if limit and count >= limit`)
LimitReached(limit, count) == limit # 0 /\ count >= limit

\* The servers of the callers, decided before the walk begins: pages of any
\* length with a next link, up to a page without one, a failed fetch, or the
\* server's last page (the fetch after it gets 404).
AppServers ==
    LET more == {Shape("page", n, "follow", "more") : n \in 0..MaxPageLen}
        last == {Shape("page", n, "none", "absent") : n \in 0..MaxPageLen}
                \cup {Shape(k, 0, "none", "absent") : k \in {"transport", "status500"}}
    IN  UNION {{s \in [1..n -> more \cup last] :
                    /\ \A k \in 1..(n - 1) : s[k] \in more
                    /\ n < MaxPages => s[n] \in last} : n \in 1..MaxPages}

\* The for loop asks the generator for its next item: when it begins, and
\* after an item that did not reach the limit.
LoopNext ==
    /\ app.ret = NoResult
    /\ out[1] = <<>> \/ ~LimitReached(app.limit, Len(out[1]))
    /\ ConsumerNext(1)

(***************************************************************************)
(* load_cinemas_with_progress, load_movies_with_progress and               *)
(* load_showtimes_with_progress.  A showing is written as its id; its      *)
(* `startDatetime` is text (a sequence of digits), missing for some.       *)
(***************************************************************************)
Loaders ==
    {"load_cinemas_with_progress", "load_movies_with_progress",
     "load_showtimes_with_progress"}

\* The stream_all call of each loader: load_cinemas_with_progress(client,
\* city="Berlin"), load_movies_with_progress(client) and
\* load_showtimes_with_progress(client, 1, date).
LoaderCall(fn) ==
    [path |-> CASE fn = "load_cinemas_with_progress" -> "/cinemas"
                [] fn = "load_movies_with_progress" -> "/movies"
                [] fn = "load_showtimes_with_progress" -> "/showings",
     per_page |-> Some(50),
     params |-> CASE fn = "load_cinemas_with_progress" -> [city |-> "Berlin"]
                  [] fn = "load_movies_with_progress" -> <<>>
                  [] fn = "load_showtimes_with_progress" ->
                        ("cinemaIds[]" :> 1) @@ [startDatetime |-> "2024-01-15T00:00:00Z",
                                                 endDatetime |-> "2024-01-16T00:00:00Z"]]

\* s.get("startDatetime", "") of the showing with this id: the server's
\* showings are in no order of time, two share a time and one has none.
StartDatetime(id) ==
    LET times == << <<"2", "0">>, <<"1", "0">>, <<>>, <<"9">>, <<"1", "0">> >>
    IN  times[((id - 1) % Len(times)) + 1]

\* a <= b on str: by the first character that differs, a prefix first.
RECURSIVE StrLeq(_, _)
StrLeq(a, b) ==
    IF a = <<>> THEN TRUE
    ELSE IF b = <<>> THEN FALSE
    ELSE IF Head(a) = Head(b) THEN StrLeq(Tail(a), Tail(b))
    ELSE DigitValue(Head(a)) < DigitValue(Head(b))

\* A loader that returns the showings as collected.
Unsorted(s) == s

\* showtimes.sort(key=lambda s: s.get("startDatetime", "")): a stable sort;
\* each item goes behind the items before it whose key is not greater.
RECURSIVE sort(_)
sort(s) ==
    IF s = <<>> THEN <<>>
    ELSE LET rest == sort(SubSeq(s, 1, Len(s) - 1))
             x == s[Len(s)]
             n == Cardinality({i \in 1..Len(rest) :
                                  StrLeq(StartDatetime(rest[i]), StartDatetime(x))})
         IN  SubSeq(rest, 1, n) \o <<x>> \o SubSeq(rest, n + 1, Len(rest))

\* The loop is left, by `break` at the limit, by the end of the stream or by
\* the exception of a fetch, and the loader returns its list or raises.
LoaderReturn ==
    /\ app.ret = NoResult
    /\ \/ consumer[1] = "consuming" /\ out[1] # <<>> /\ LimitReached(app.limit, Len(out[1]))
       \/ consumer[1] \in {"finished", "failed"}
    /\ consumer' = [consumer EXCEPT ![1] = IF @ = "consuming" THEN "stopped" ELSE @]
    /\ app' = [app EXCEPT !.ret =
                 IF consumer[1] = "failed" THEN raised[1]
                 ELSE IF app.fn = "load_showtimes_with_progress" THEN Return(sort(out[1]))
                 ELSE Return(out[1])]
    /\ UNCHANGED <<response, result, callVars, cliVars, ui, server, call, gen, asked, out,
                   raised, requests, inflight>>

(***************************************************************************)
(* SpecLoad: one call of a loader, with any limit up to MaxLimit (0: no    *)
(* limit), on any of the AppServers.                                       *)
(***************************************************************************)
InitLoad ==
    /\ response = TransportError
    /\ result = NoResult
    /\ app \in [fn : Loaders, limit : 0..MaxLimit, ret : {NoResult}]
    /\ ui = NoUi
    /\ server \in AppServers
    /\ call = [w \in Walks |-> IF w = 1 THEN LoaderCall(app.fn) ELSE NoCall]
    /\ Created({1})
    /\ NoCalls
    /\ NoRuns

NextLoad ==
    \/ LoopNext
    \/ SendGet(1)
    \/ ReceivePage(1)
    \/ YieldItem(1)
    \/ EndOfPage(1)
    \/ LoaderReturn

SpecLoad == InitLoad /\ [][NextLoad]_vars

(***************************************************************************)
(* Claims about the loaders, checked under SpecLoad.                       *)
(***************************************************************************)
\* C22: a loader called with a limit L > 0 returns at most L items; those of
\* load_cinemas_with_progress and load_movies_with_progress are the first
\* min(L, n) items of the stream in stream order (fewer than L only when the
\* stream ended), and the loop stops at the L-th item: the page holding it is
\* the last page fetched.
C22_LoadersStopAtLimit ==
    (app.ret.tag = "return" /\ app.limit > 0) =>
        LET pages == Len(requests)
            got == app.ret.value
        IN  /\ Len(got) <= app.limit
            /\ Len(got) = Len(out[1])
            /\ app.fn # "load_showtimes_with_progress" =>
                  /\ got = SubSeq(ItemsThrough(pages), 1, Len(got))
                  /\ Len(got) < app.limit =>
                        consumer[1] = "finished" /\ got = ItemsThrough(pages)
            /\ Len(got) = app.limit =>
                  /\ Len(ItemsThrough(pages - 1)) < app.limit
                  /\ consumer[1] = "stopped" /\ asked[1] = app.limit

\* C22 witness: load_cinemas_with_progress with limit 3 on a server whose
\* first two pages hold two items each and a third page follows: it returns
\* the first three items after two fetches.
C22_Witness ==
    /\ app.fn = "load_cinemas_with_progress"
    /\ app.limit = 3
    /\ app.ret = Return(<<1, 2, 4>>)
    /\ Len(requests) = 2
    /\ Len(server) = 3
    /\ server[2].nxt = "follow"

\* C22 witness: the stream ends before the limit is reached.
C22_WitnessShortStream ==
    /\ app.fn = "load_movies_with_progress"
    /\ app.limit = 3
    /\ app.ret = Return(<<1, 4>>)
    /\ consumer[1] = "finished"

\* C23: load_showtimes_with_progress returns the showings it collected in
\* non-decreasing order of `startDatetime` (a showing without one counts as
\* ""), and what it returns is a permutation of what it collected.
C23_ShowtimesSorted ==
    (app.fn = "load_showtimes_with_progress" /\ app.ret.tag = "return") =>
        LET got == app.ret.value IN
        /\ \A i \in 1..(Len(got) - 1) :
              StrLeq(StartDatetime(got[i]), StartDatetime(got[i + 1]))
        /\ Len(got) = Len(out[1])
        /\ \A i \in 1..Len(got) :
              Cardinality({j \in 1..Len(got) : got[j] = got[i]})
                  = Cardinality({j \in 1..Len(out[1]) : out[1][j] = got[i]})

\* C23 witness: the stream produced the showings 1 ("20"), 2 ("10"), 4 ("9")
\* and 5 ("10"); the loader returns 2, 5, 1, 4.
C23_Witness ==
    /\ app.fn = "load_showtimes_with_progress"
    /\ out[1] = <<1, 2, 4, 5>>
    /\ app.ret = Return(<<2, 5, 1, 4>>)

(***************************************************************************)
(* The list commands with --all: cinemas, cinemas-near, movies,            *)
(* cinema-movies and movies-search (src/src/cineamoquery/cli.py).  main    *)
(* has built the client; the command walks stream_all, collecting rows,    *)
(* prints them after the loop, and finalize closes the client when the     *)
(* command has returned.  A row is written as the id of its item.          *)
(***************************************************************************)
ListCommands == {"cinemas", "cinemas-near", "movies", "cinema-movies", "movies-search"}

\* The runs tried: every command with every --limit from -1 to MaxLimit;
\* `cinemas` with the default and with another --page and --per-page and in
\* both formats, the other commands with --page 3 --per-page 2.
ListRuns ==
    {r \in [fn : ListCommands, limit : -1..MaxLimit, page : {1, 3}, per_page : {10, 2},
            fmt : {"json", "rich"}] :
        /\ r.page = 1 <=> r.per_page = 10
        /\ r.fn = "cinemas" \/ (r.page = 3 /\ r.fmt = "rich")}

\* `params`: per_page, page and the filters of the command, each given.
ListParams(r) ==
    ("per_page" :> r.per_page) @@ ("page" :> r.page) @@
    CASE r.fn = "cinemas" -> [city |-> "Berlin"]
      [] r.fn = "cinemas-near" ->
            [latitude |-> Float(525, 1), longitude |-> Float(134, 1), distance |-> 5000]
      [] r.fn = "movies" -> [query |-> "Dune"]
      [] r.fn = "cinema-movies" -> [query |-> "Dune", region |-> "DE"]
      [] r.fn = "movies-search" ->
            [query |-> "Dune", region |-> "DE", releaseDateStart |-> "2024-01-01",
             releaseDateEnd |-> "2024-12-31", type |-> "movie"]

\* A command that leaves `page` in the arguments it passes on.
PoppedPerPageOnly(params) == [k \in DOMAIN params \ {"per_page"} |-> params[k]]

\* _ps = dict(params); _ps.pop("per_page", None); _ps.pop("page", None)
Popped(params) == [k \in DOMAIN params \ {"per_page", "page"} |-> params[k]]

\* client.stream_all(path, per_page=per_page, **_ps)
ListCall(r) ==
    [path |-> CASE r.fn \in {"cinemas", "cinemas-near"} -> "/cinemas"
                [] r.fn \in {"movies", "movies-search"} -> "/movies"
                [] r.fn = "cinema-movies" -> "/cinemas/7/movies",
     per_page |-> Some(r.per_page),
     params |-> Popped(ListParams(r))]

\* A command that prints the rows it has, whatever ended the loop.
OutputStreamed(fmt, rows, h) == <<[fmt |-> fmt, items |-> rows, total |-> Len(rows)]>> \o h.out

\* What the command prints once the loop is left: the rows and their count
\* (as JSON or as a table) when the walk gave no exception, else what
\* handle_api_errors prints.
Output(fmt, rows, h) ==
    IF h.end = "return" THEN <<[fmt |-> fmt, items |-> rows, total |-> Len(rows)]>>
    ELSE h.out

\* The loop is left, by `break` at the limit, by the end of the stream or by
\* the exception of a fetch; the command prints and returns, or
\* handle_api_errors prints and raises click.Abort (exit status 1).
ListReturn ==
    /\ app.ret = NoResult
    /\ \/ consumer[1] = "consuming" /\ out[1] # <<>> /\ LimitReached(app.limit, Len(out[1]))
       \/ consumer[1] \in {"finished", "failed"}
    /\ consumer' = [consumer EXCEPT ![1] = IF @ = "consuming" THEN "stopped" ELSE @]
    /\ LET r == IF consumer[1] = "failed" THEN raised[1] ELSE Return(out[1])
           h == handle_api_errors(r)
       IN  app' = [app EXCEPT !.ret = IF h.end = "abort" THEN Raise("Abort", 0) ELSE r,
                              !.out = Output(app.fmt, out[1], h),
                              !.exit = IF h.end = "return" THEN None
                                       ELSE Some(ExitStatus(h.end))]
    /\ UNCHANGED <<response, result, callVars, cliVars, ui, server, call, gen, asked, out,
                   raised, requests, inflight>>

\* A result callback that does not wait for the command.
result_callback_early(a) == a.exit = None

\* @main.result_callback(): finalize runs when the command has returned.
result_callback(a) == a.ret.tag = "return" /\ a.exit = None

\* finalize: client.close(), and the run ends with status 0.
finalize ==
    /\ result_callback(app)
    /\ app' = [app EXCEPT !.closed = @ + 1, !.exit = Some(ExitStatus("return"))]
    /\ UNCHANGED <<response, result, callVars, cliVars, ui, walkVars>>

(***************************************************************************)
(* SpecList: one run of a list command with --all on any of the            *)
(* AppServers.  A keyword given twice to stream_all or list_paginated is a *)
(* TypeError before any request.                                           *)
(***************************************************************************)
InitList ==
    /\ response = TransportError
    /\ result = NoResult
    /\ \E r \in ListRuns :
         /\ call = [w \in Walks |-> IF w = 1 THEN ListCall(r) ELSE NoCall]
         /\ app = [fn |-> r.fn, limit |-> r.limit, page |-> r.page, per_page |-> r.per_page,
                   fmt |-> r.fmt,
                   ret |-> IF DOMAIN ListCall(r).params \cap {"per_page", "page"} # {}
                           THEN Raise("TypeError", 0) ELSE NoResult,
                   out |-> <<>>, exit |-> None, closed |-> 0]
    /\ ui = NoUi
    /\ server \in AppServers
    /\ Created({1})
    /\ NoCalls
    /\ NoRuns

NextList ==
    \/ LoopNext
    \/ SendGet(1)
    \/ ReceivePage(1)
    \/ YieldItem(1)
    \/ EndOfPage(1)
    \/ ListReturn
    \/ finalize

SpecList == InitList /\ [][NextList]_vars

(***************************************************************************)
(* Claims about the list commands with --all, checked under SpecList.      *)
(***************************************************************************)
\* The command left its loop without an exception and printed.
Listed == app.ret.tag = "return"

\* C24: with --all and --limit L, a list command prints at most L items when
\* L is not 0, exactly the first min(L, n) items of the walk, having stopped
\* at the L-th, and prints every item of the walk when L is 0.
C24_LimitBoundsOutput ==
    Listed =>
        LET pages == Len(requests)
            rows == app.out[1].items
        IN  /\ rows = SubSeq(ItemsThrough(pages), 1, Len(rows))
            /\ app.out[1].total = Len(rows)
            /\ app.limit = 0 => consumer[1] = "finished" /\ rows = ItemsThrough(pages)
            /\ app.limit # 0 =>
                  /\ Len(rows) <= app.limit
                  /\ Len(rows) < app.limit =>
                        consumer[1] = "finished" /\ rows = ItemsThrough(pages)
                  /\ Len(rows) = app.limit => Len(ItemsThrough(pages - 1)) < app.limit

\* C27: with --all the --page option is ignored: no keyword reaches
\* stream_all or list_paginated twice, the walk starts at page 1, and its
\* i-th request goes to the command's path with exactly per_page (the
\* --per-page value), page (i) and the command's filters.
C27_AllIgnoresPage ==
    /\ app.ret.tag = "raise" => app.ret.exc # "TypeError"
    /\ \A i \in 1..Len(requests) :
          /\ requests[i].path = call[1].path
          /\ requests[i].params =
                ("per_page" :> app.per_page) @@ ("page" :> i)
                @@ [k \in DOMAIN ListParams(app) \ {"per_page", "page"} |-> ListParams(app)[k]]

\* C27 witness: `cinema-movies --all --page 3 --per-page 2` has requested
\* pages 1 and 2 with per_page 2 and its two filters.
C27_Witness ==
    /\ app.fn = "cinema-movies"
    /\ app.page = 3
    /\ Len(requests) = 2
    /\ requests[1].params = [per_page |-> 2, page |-> 1, query |-> "Dune", region |-> "DE"]
    /\ requests[2].params = [per_page |-> 2, page |-> 2, query |-> "Dune", region |-> "DE"]

C30_ClosedOnceAfterLastRequest ==
    /\ [](/\ app.closed <= 1
          /\ app.closed = 1 => Listed /\ inflight = 0
          /\ app.exit = Some(0) => app.closed = 1)
    /\ [][app.closed = 1 => requests' = requests /\ gen' = gen]_vars

\* C30 witness: a walk of three requests was printed and the client is
\* closed.
C30_Witness ==
    /\ Listed
    /\ Len(requests) = 3
    /\ app.closed = 1
    /\ app.exit = Some(0)

(***************************************************************************)
(* A claim about empty pages, checked under Spec.                          *)
(***************************************************************************)
\* C26: a page with no items and a next link does not end the walk: when
\* the generator is through with such a page it yields nothing and moves to
\* the request of the next page index, the consumer's next() still pending;
\* and no walk ends at such a page.
C26_EmptyPageDoesNotEndWalk ==
    /\ [](\A w \in Walks : \A k \in DOMAIN server :
            (HasNextLink(k) /\ server[k].n = 0 /\ consumer[w] = "finished") =>
                Len(Reqs(w)) > k)
    /\ [][\A w \in Walks :
            ( /\ gen[w].pc = "items"
              /\ gen[w].p.items = <<>>
              /\ TruthyStr(gen[w].p.next_url)
              /\ gen'[w] # gen[w] ) =>
                /\ gen'[w].pc = "call"
                /\ gen'[w].page = gen[w].page + 1
                /\ out' = out
                /\ consumer'[w] = "in_next"]_vars

\* C26 witness: page 1 was empty with a next link; the walk went on to page
\* 2 and yielded its two items.
C26_Witness ==
    /\ HasNextLink(1)
    /\ server[1].n = 0
    /\ Len(Reqs(1)) = 2
    /\ out[1] = ItemsOf(2, 2)

(***************************************************************************)
(* The `get` command: raw_get (src/src/cineamoquery/cli.py).  main has     *)
(* built the client.  The path and each -p value are text.                 *)
(***************************************************************************)
MaxParams == 2      \* -p options of one run

\* p.split("=", 1), for a p that holds "=": the text before and after its
\* first "=".
SplitAtEquals(p) ==
    LET i == CHOOSE i \in 1..Len(p) : p[i] = "=" /\ \A j \in 1..(i - 1) : p[j] # "="
    IN  [k |-> SubSeq(p, 1, i - 1), v |-> SubSeq(p, i + 1, Len(p))]

\* qp after `for p in params: k, v = p.split("=", 1); qp[k] = v`
RECURSIVE QueryParams(_)
QueryParams(ps) ==
    IF ps = <<>> THEN <<>>
    ELSE LET kv == SplitAtEquals(ps[Len(ps)])
         IN  SetItem(QueryParams(SubSeq(ps, 1, Len(ps) - 1)), kv.k, kv.v)

\* raw_get(ctx, path, params, fmt), the API answering with resp: the GET it
\* issues, if any, and what it returns (its output) or raises.  The call
\* client.get_json(path, **qp) is a TypeError when qp holds the name of one
\* of get_json's own parameters.
raw_get(path, ps, fmt, resp) ==
    IF path = <<>> \/ path[1] # Slash
    THEN [sent |-> <<>>, r |-> Raise("UsageError", 0)]
    ELSE IF \E i \in 1..Len(ps) : \A j \in 1..Len(ps[i]) : ps[i][j] # "="
    THEN [sent |-> <<>>, r |-> Raise("UsageError", 0)]
    ELSE LET qp == QueryParams(ps)
             data == get_json(resp)
         IN  IF \E i \in 1..Len(qp) : qp[i].k \in {<<"self">>, <<"path">>}
             THEN [sent |-> <<>>, r |-> Raise("TypeError", 0)]
             ELSE [sent |-> <<[w |-> 0, path |-> path, params |-> qp]>>,
                   r |-> IF data.tag = "raise" THEN data
                         ELSE Return(<<Echo(<<IF fmt = "rich" /\ data.value.json = "object"
                                              THEN "table" ELSE "json">>)>>)]

\* get PATH -p ... --format FMT: raw_get under handle_api_errors.  A usage
\* error ends the run with status 2.
RawGet(path, ps, fmt, resp) ==
    LET g == raw_get(path, ps, fmt, resp)
        h == handle_api_errors(g.r)
    IN  /\ run = NoRun
        /\ requests' = requests \o g.sent
        /\ run' = [cmd |-> "get", args |-> [path |-> path, params |-> ps, fmt |-> fmt],
                   out |-> IF h.end = "return" THEN g.r.value ELSE h.out,
                   exit |-> IF h.end = "raise" /\ g.r.exc = "UsageError" THEN 2
                            ELSE ExitStatus(h.end),
                   exc |-> CASE h.end = "return" -> ""
                             [] h.end = "abort" -> "Abort"
                             [] h.end = "raise" -> g.r.exc]
        /\ UNCHANGED <<response, result, callVars, file, lastSet, appVars, server, call, gen,
                       consumer, asked, out, raised, inflight>>

(***************************************************************************)
(* SpecGet: one run of `get`, with any of the paths, up to MaxParams -p    *)
(* options and any of the answers.                                         *)
(***************************************************************************)
GetRuns ==
    [path : {<<Slash, "cinemas">>, <<"cinemas">>, <<>>},
     params : SeqsUpTo({<<"a", "=", "1">>, <<"a", "=", "2">>, <<"b", "=", "c", "=", "d">>,
                        <<"a">>, <<"=", "1">>, <<"path", "=", "1">>}, MaxParams),
     fmt : {"json", "rich"},
     resp : {HttpResponse(200, SampleBody), HttpResponse(200, ArrayBody),
             HttpResponse(404, InvalidBody), TransportError}]

InitGet ==
    /\ response = TransportError
    /\ result = NoResult
    /\ WalksIdle
    /\ NoCalls
    /\ NoRuns
    /\ NoApps

NextGet == \E g \in GetRuns : RawGet(g.path, g.params, g.fmt, g.resp)

SpecGet == InitGet /\ [][NextGet]_vars

(***************************************************************************)
(* A claim about `get`, checked under SpecGet.                             *)
(***************************************************************************)
\* The -p value holds no "=".
NoEquals(p) == \A j \in 1..Len(p) : p[j] # "="

\* C25: `get` validates before it requests: with a path that does not start
\* with "/" or a -p value without "=" the run ends in a usage error and no
\* GET is issued; otherwise exactly one GET is issued, for the path, whose
\* parameters are the keys before the first "=" of the -p values, each with
\* the text after the first "=" of the last -p value that has the key.
C25_GetValidatesThenRequests ==
    run.cmd = "get" =>
        LET path == run.args.path
            ps == run.args.params
            invalid == path = <<>> \/ path[1] # Slash \/ \E i \in 1..Len(ps) : NoEquals(ps[i])
            keys == {SplitAtEquals(ps[i]).k : i \in 1..Len(ps)}
            last(k) == CHOOSE i \in 1..Len(ps) :
                          /\ SplitAtEquals(ps[i]).k = k
                          /\ \A j \in (i + 1)..Len(ps) : SplitAtEquals(ps[j]).k # k
        IN  /\ invalid => run.exc = "UsageError" /\ run.exit = 2 /\ requests = <<>>
            /\ ~invalid =>
                  /\ Len(requests) = 1
                  /\ requests[1].path = path
                  /\ {requests[1].params[i].k : i \in 1..Len(requests[1].params)} = keys
                  /\ \A k \in keys :
                        Item(requests[1].params, k) = SplitAtEquals(ps[last(k)]).v

(***************************************************************************)
(* The interactive mode: run_interactive and its workflows                 *)
(* (src/src/cinemaquery/interactive.py).  `ui` holds where the session     *)
(* stands (pc), the start type, how often the main menu was shown, how     *)
(* many workflows were begun and the last thing the user or the API        *)
(* answered.  A menu answers None (cancelled) or Some(index); a loader     *)
(* answers with an empty list, with items, or raises.                      *)
(***************************************************************************)
MaxMenus == 3       \* times the main menu is shown in one session

\* show_main_menu(), the menu answering `answer`
show_main_menu(answer) ==
    IF answer = None THEN None
    ELSE IF answer = Some(0) THEN Some("cinema")
    ELSE IF answer = Some(1) THEN Some("movie")
    ELSE Some("quit")

\* show_cinema_action_menu(cinema_name), the menu answering `answer`
show_cinema_action_menu(answer) ==
    IF answer = None THEN "back"
    ELSE <<"showtimes_today", "showtimes_date", "movies", "details", "back">>[answer[1] + 1]

\* show_movie_action_menu(movie_title), the menu answering `answer`
show_movie_action_menu(answer) ==
    IF answer = None THEN "back"
    ELSE <<"cinemas", "details", "back">>[answer[1] + 1]

\* A session that ends when a workflow ends.
AfterWorkflowExits(start) == "returned"

\* Where run_interactive goes on when run_cinema_workflow or
\* run_movie_workflow has returned: `return` with a start type, the main
\* menu loop without.
AfterWorkflow(start) == IF start \in {Some("cinema"), Some("movie")} THEN "returned" ELSE "main"

\* The session moves to pc, after `input` was answered at ui.pc.
Goto(pc, input) == [ui EXCEPT !.pc = pc, !.last = [at |-> ui.pc, input |-> input]]

\* run_interactive(client, start_type) begins: the workflow of the start
\* type, or the main menu loop.
Begin ==
    /\ ui.pc = "begin"
    /\ ui' = [ui EXCEPT !.pc = IF ui.start = Some("cinema") THEN "c_load"
                               ELSE IF ui.start = Some("movie") THEN "m_load"
                               ELSE "main",
                        !.flows = IF ui.start \in {Some("cinema"), Some("movie")} THEN 1 ELSE 0]
    /\ UNCHANGED <<response, result, callVars, cliVars, app, walkVars>>

\* The main menu loop: show_main_menu, then `break`, run_cinema_workflow or
\* run_movie_workflow.
MainMenu(answer) ==
    LET choice == show_main_menu(answer) IN
    /\ ui.pc = "main"
    /\ ui.shown < MaxMenus
    /\ ui' = [Goto(IF choice = None \/ choice = Some("quit") THEN "returned"
                   ELSE IF choice = Some("cinema") THEN "c_load"
                   ELSE "m_load", answer)
              EXCEPT !.shown = @ + 1,
                     !.flows = IF choice \in {Some("cinema"), Some("movie")} THEN @ + 1 ELSE @]
    /\ UNCHANGED <<response, result, callVars, cliVars, app, walkVars>>

\* The prompt and the loader at the head of run_cinema_workflow (c_load),
\* run_movie_workflow (m_load) and _handle_cinema_movies (cm_load): an empty
\* list ends the workflow (the handler), an exception ends the session.
Load(loaded) ==
    /\ ui.pc \in {"c_load", "m_load", "cm_load"}
    /\ ui' = Goto(CASE loaded = "raise" -> "raised"
                    [] loaded = "some" ->
                          (CASE ui.pc = "c_load" -> "c_select"
                             [] ui.pc = "m_load" -> "m_select"
                             [] ui.pc = "cm_load" -> "cm_select")
                    [] loaded = "empty" ->
                          IF ui.pc = "cm_load" THEN "c_action" ELSE AfterWorkflow(ui.start),
                  <<loaded>>)
    /\ UNCHANGED <<response, result, callVars, cliVars, app, walkVars>>

\* show_fuzzy_menu over the loaded list: cancelled, the workflow (the
\* handler) returns; else the action menu of the selected entry is next.
Select(answer) ==
    /\ ui.pc \in {"c_select", "m_select", "cm_select"}
    /\ ui' = Goto(CASE ui.pc = "c_select" ->
                          IF answer = None THEN AfterWorkflow(ui.start) ELSE "c_action"
                    [] ui.pc = "m_select" ->
                          IF answer = None THEN AfterWorkflow(ui.start) ELSE "m_action"
                    [] ui.pc = "cm_select" ->
                          IF answer = None THEN "c_action" ELSE "cm_action",
                  answer)
    /\ UNCHANGED <<response, result, callVars, cliVars, app, walkVars>>

\* The loop of run_cinema_workflow: show_cinema_action_menu, `return True`
\* on back, else _handle_cinema_action, which returns (handled) or raises;
\* the action `movies` goes through _handle_cinema_movies.
CinemaAction(answer, handled) ==
    LET action == show_cinema_action_menu(answer) IN
    /\ ui.pc = "c_action"
    /\ ui' = Goto(IF action = "back" THEN AfterWorkflow(ui.start)
                  ELSE IF action = "movies" THEN "cm_load"
                  ELSE IF handled THEN "c_action"
                  ELSE "raised", answer)
    /\ UNCHANGED <<response, result, callVars, cliVars, app, walkVars>>

\* The loop over show_movie_action_menu in run_movie_workflow (m_action) and
\* in _handle_cinema_movies (cm_action): back leaves the loop, else
\* display_movie_details or _handle_movie_cinemas returns (handled) or
\* raises.
MovieAction(answer, handled) ==
    LET action == show_movie_action_menu(answer) IN
    /\ ui.pc \in {"m_action", "cm_action"}
    /\ ui' = Goto(IF action = "back"
                  THEN (IF ui.pc = "cm_action" THEN "c_action" ELSE AfterWorkflow(ui.start))
                  ELSE IF handled THEN ui.pc
                  ELSE "raised", answer)
    /\ UNCHANGED <<response, result, callVars, cliVars, app, walkVars>>

(***************************************************************************)
(* SpecMenu: one session of run_interactive, with no start type or with    *)
(* cinema or movie, the user and the API answering in any way.             *)
(***************************************************************************)
InitMenu ==
    /\ response = TransportError
    /\ result = NoResult
    /\ WalksIdle
    /\ NoCalls
    /\ NoRuns
    /\ app = NoApp
    /\ ui \in [pc : {"begin"}, start : {None, Some("cinema"), Some("movie")}, shown : {0},
               flows : {0}, last : {[at |-> "none", input |-> None]}]

NextMenu ==
    \/ Begin
    \/ \E r \in {None} \cup {Some(i) : i \in 0..2} : MainMenu(r)
    \/ \E loaded \in {"empty", "some", "raise"} : Load(loaded)
    \/ \E r \in {None, Some(0)} : Select(r)
    \/ \E r \in {None} \cup {Some(i) : i \in 0..4}, handled \in BOOLEAN : CinemaAction(r, handled)
    \/ \E r \in {None} \cup {Some(i) : i \in 0..2}, handled \in BOOLEAN : MovieAction(r, handled)

SpecMenu == InitMenu /\ [][NextMenu]_vars

(***************************************************************************)
(* A claim about the interactive mode, checked under SpecMenu.             *)
(***************************************************************************)
\* The session is inside run_cinema_workflow or run_movie_workflow.
InWorkflow(pc) ==
    pc \in {"c_load", "c_select", "c_action", "cm_load", "cm_select", "cm_action",
            "m_load", "m_select", "m_action"}

\* C29: without a start type run_interactive returns only from the main
\* menu, when it answered Exit or was cancelled; when a workflow ends
\* without an exception the main menu is next; a cancelled cinema or movie
\* action menu leads where Back leads (the main menu, or the cinema's action
\* menu from the movie menu inside it) and never out of the session.  With a
\* start type of cinema or movie exactly one workflow runs, the main menu is
\* never shown, and the end of the workflow is the return.
C29_ReturnsOnlyFromMainMenu ==
    /\ [](/\ (ui.start = None /\ ui.pc = "returned") =>
                /\ ui.last.at = "main"
                /\ ui.last.input = None \/ ui.last.input = Some(2)
          /\ ui.start # None =>
                /\ ui.shown = 0
                /\ ui.pc # "main"
                /\ ui.pc # "begin" => ui.flows = 1)
    /\ [][/\ (InWorkflow(ui.pc) /\ ~InWorkflow(ui'.pc) /\ ui'.pc # "raised") =>
                ui'.pc = (IF ui.start = None THEN "main" ELSE "returned")
          /\ (ui.pc \in {"c_action", "m_action", "cm_action"} /\ ui'.last.input = None) =>
                ui'.pc = (IF ui.pc = "cm_action" THEN "c_action"
                          ELSE IF ui.start = None THEN "main"
                          ELSE "returned")]_vars

\* C29 witness: the user cancelled the action menu of a cinema and then the
\* cinema selection of a second workflow, and is at the main menu for the
\* third time.
C29_Witness ==
    /\ ui.start = None
    /\ ui.pc = "main"
    /\ ui.shown = 2
    /\ ui.flows = 2
    /\ ui.last = [at |-> "c_select", input |-> None]

\* C29 witness: started with cinema, the workflow found no cinemas and the
\* session returned without a main menu.
C29_WitnessStartType ==
    /\ ui.start = Some("cinema")
    /\ ui.pc = "returned"
    /\ ui.shown = 0
    /\ ui.last = [at |-> "c_load", input |-> <<"empty">>]

====
